---- MODULE Spec2Model ----
(***************************************************************************)
(* Qsafe session core: the authenticated KEM handshake (Client.Initiate,   *)
(* Server.Accept, PendingClient.Finish), the key scheduler, and the record *)
(* session (Session.Encrypt / Session.Decrypt) with its replay window and  *)
(* rotation manager.                                                       *)
(*                                                                         *)
(* Cryptography is symbolic.  A hash, a KDF output, a signature, a nonce   *)
(* and an AEAD ciphertext are terms built from their inputs: two terms are *)
(* byte-wise equal exactly when they were computed from equal inputs, a    *)
(* signature verifies only under the key that made it, and an AEAD         *)
(* ciphertext opens only under the key, nonce and associated data it was   *)
(* sealed with.  Durations and instants are whole seconds.                 *)
(***************************************************************************)
EXTENDS Integers, Sequences, FiniteSets, TLC

VARIABLES
    now,        \* the wall clock read by time.Now()
    cCfg,       \* ClientConfig of the handshake client
    sCfg,       \* ServerConfig of the handshake server
    cInit,      \* the ClientInit returned by Initiate (NoInit before)
    pending,    \* the PendingClient: transcript, sharedSecret, clientNonce
    accepts,    \* history: every Server.Accept call, its input and results
    finishes,   \* history: every PendingClient.Finish call and its results
    sess,       \* role -> Session (send sequence, rotation manager, window)
    sent,       \* history: role -> the Encrypt calls of that role's Session
    handed,     \* history: role -> envelopes handed to Decrypt as Encrypt made them
    opened,     \* history: role -> envelopes Decrypt returned a plaintext for
    last,       \* history: the most recent Decrypt call and its results
    limits,     \* what a run explores: calls of each operation, nonce-less envelopes
    calls,      \* thread -> its Encrypt call in progress (position and locals)
    sendMu,     \* Session.sendMu: the thread holding it, NoThread when free
    lockOrder,  \* history: the threads in the order they acquired sendMu
    mgr,        \* a rotation.Manager used on its own
    asked,      \* history: the most recent call on mgr and its result
    enforcer,   \* the policy.Enforcer (NoPolicy for a nil *Enforcer)
    checks,     \* history: every Enforcer.Validate call and its result
    built,      \* history: role -> the NewSession call that made its Session
    made,       \* history: the arguments of rotation.New for mgr, the Resets since
    win,        \* a replay.Window used on its own
    winMu,      \* Window.mu: the thread holding it, NoThread when free
    winCalls,   \* thread -> its Window.Accept call in progress
    winLog,     \* history: the Accept calls in the order they took effect
    recvCalls,  \* thread -> its Session.Decrypt call in progress
    ops,        \* history: the Encrypt and Decrypt calls that returned
    accs,       \* the transcript.Accumulators: hasher input and entries
    snaps       \* history: the Snapshot and Append calls on the accumulators

hsVars == <<cCfg, sCfg, cInit, pending, accepts, finishes>>
ssVars == <<sess, sent, handed, opened, last>>
thVars == <<calls, sendMu, lockOrder>>
rotVars == <<mgr, asked, made>>
libVars == <<win, winMu, winCalls, winLog, recvCalls, ops, accs, snaps>>
polVars == <<enforcer, checks, built>>
vars == <<now, cCfg, sCfg, cInit, pending, accepts, finishes,
          sess, sent, handed, opened, last, limits,
          calls, sendMu, lockOrder, mgr, asked, enforcer, checks, built,
          made, win, winMu, winCalls, winLog, recvCalls, ops, accs, snaps>>

(***************************************************************************)
(* Bounds of the model.                                                    *)
(***************************************************************************)
MaxAccepts == 1     \* Server.Accept calls per run
MaxSend == 2        \* Encrypt calls per run, both sessions together
SeqBits == 2        \* width of the sequence bits the attacker flips
MaxFinish == 1      \* PendingClient.Finish calls per run
MaxUse == 1         \* Encrypt calls per run of SpecConstruct and SpecNonce
TamperBudget == 2   \* response components the attacker replaces at once

(***************************************************************************)
(* Program constants.                                                      *)
(***************************************************************************)
ProtocolVersion == 1        \* Version: 1 in Initiate and Accept
DefaultKeySize == 32        \* ClientKeySize/ServerKeySize/ExporterSize default
DefaultRotationSecs == 900  \* 15 * time.Minute

(***************************************************************************)
(* pkg/crypto/kem: the KEM suite.  "kemS" is the server's key pair, "kemA" *)
(* a key pair whose private half the attacker holds.  A ciphertext records *)
(* the public key it was encapsulated to, the randomness that made it,     *)
(* whether bits of it were flipped afterwards and whether it was cut short.*)
(***************************************************************************)
KemKeys == {"kemS", "kemA"}

KemCiphertext(to, r) == [to |-> to, r |-> r, flip |-> FALSE, short |-> FALSE]

\* Kyber768.Encapsulate: one fresh ciphertext and secret per call.
Encapsulate(publicKey, r) == [ct |-> KemCiphertext(publicKey, r), ss |-> "ss" \o r]

\* Kyber768.Decapsulate.  circl fails only on a ciphertext of the wrong size;
\* any other ciphertext that was not made for this key yields the
\* implicit-rejection secret, a pseudorandom function of key and ciphertext.
Decapsulate(privateKey, ciphertext) ==
    IF ciphertext.short THEN [err |-> "KemFailure", ss |-> ""]
    ELSE IF ciphertext.to = privateKey /\ ~ciphertext.flip
         THEN [err |-> "ok", ss |-> "ss" \o ciphertext.r]
    ELSE [err |-> "ok",
          ss |-> "rej:" \o privateKey \o ":" \o ciphertext.to \o ":" \o ciphertext.r]

(***************************************************************************)
(* pkg/crypto/sign: signatures as terms.                                   *)
(***************************************************************************)
Sign(privateKey, message) == [signer |-> privateKey, msg |-> message]

\* Variant: any signer's signature over the message verifies.
VerifyAnySigner(publicKey, message, signature) == signature.msg = message

Verify(publicKey, message, signature) ==
    signature = [signer |-> publicKey, msg |-> message]

(***************************************************************************)
(* pkg/session/transcript: the accumulator is the domain and the list of   *)
(* (label, serialized value) contributions; the digest of a hasher state   *)
(* is the state itself.                                                    *)
(***************************************************************************)
TranscriptNew(domain) == [domain |-> domain, entries |-> <<>>]

TranscriptAppend(a, label, serialized) ==
    [a EXCEPT !.entries = Append(@, [label |-> label, data |-> serialized])]

Snapshot(a) == a

\* The empty byte string in a TranscriptHash field (ServerResponse{}, Keys{}).
ZeroHash == [domain |-> "", entries |-> <<>>]
\* A digest no transcript hashes to (a responder digest with bits flipped).
JunkHash == [domain |-> "junk", entries |-> <<>>]

(***************************************************************************)
(* Timestamps carry their instant and their zone offset; json.Marshal      *)
(* writes both, Time.UTC() keeps the instant and drops the offset.         *)
(***************************************************************************)
TimeAt(t) == [inst |-> t, off |-> 0]

\* The first instant of year 10000 on the model's clock: json.Marshal
\* refuses a time.Time from there on, and Accumulator.Append returns its
\* error.
FirstUnmarshalable == 10000

\* Variant: json.Marshal accepts every time.Time.
MarshalableAlways(ts) == TRUE

Marshalable(ts) == ts.inst < FirstUnmarshalable
UTC(ts) == [inst |-> ts.inst, off |-> 0]

hashBytes(data) == <<"blake3", data>>

\* Variant: the ciphertext is left out of the hashed map altogether.
initWithoutCiphertextOrHash(init) ==
    [capabilities |-> init.caps,
     ciphertext_hash |-> hashBytes(""),
     mode |-> init.mode,
     nonce |-> init.nonce,
     timestamp |-> UTC(init.ts),
     version |-> init.version]

\* initWithoutCiphertext, then json.Marshal of the map (keys sorted).
initWithoutCiphertext(init) ==
    [capabilities |-> init.caps,
     ciphertext_hash |-> hashBytes(init.ct),
     mode |-> init.mode,
     nonce |-> init.nonce,
     timestamp |-> UTC(init.ts),
     version |-> init.version]

\* Variant: rotation_secs is not serialized.
MarshalPayloadNoRotation(p) ==
    [version |-> p.version, mode |-> p.mode, timestamp |-> p.ts,
     nonce |-> p.nonce, rotation_secs |-> 0, capabilities |-> p.caps]

\* json.Marshal(ServerPayload): every field, the timestamp as it is.
MarshalPayload(p) ==
    [version |-> p.version, mode |-> p.mode, timestamp |-> p.ts,
     nonce |-> p.nonce, rotation_secs |-> p.rot, capabilities |-> p.caps]

(***************************************************************************)
(* pkg/crypto/scheduler.                                                   *)
(***************************************************************************)
ZeroKey == [ikm |-> "", salt |-> "", info |-> [mode |-> "", th |-> ZeroHash],
            off |-> 0, len |-> 0]
JunkKey == [ikm |-> "junk", salt |-> "", info |-> [mode |-> "", th |-> ZeroHash],
            off |-> 0, len |-> DefaultKeySize]

ZeroKeys ==
    [SessionID |-> [ss |-> "", th |-> ZeroHash],
     ClientToServer |-> ZeroKey, ServerToClient |-> ZeroKey,
     ExporterSecret |-> ZeroKey, TranscriptHash |-> ZeroHash,
     SharedSecret |-> "", EstablishedAt |-> 0, NextRotation |-> 0]

buildInfo(mode, transcriptHash) ==
    [mode |-> IF mode = "" THEN "strict" ELSE mode, th |-> transcriptHash]

deriveSessionID(transcriptHash, sharedSecret) ==
    [ss |-> sharedSecret, th |-> transcriptHash]

\* hkdf.New(sha3.New512, secret, salt, info): an empty salt is the all-zero
\* HMAC key, the same key as a salt of zero bytes.
HkdfSalt(salt) == IF salt = "" THEN "zeros" ELSE salt

\* len bytes of the HKDF output stream starting at byte off.
HkdfRead(secret, salt, info, off, len) ==
    [ikm |-> secret, salt |-> HkdfSalt(salt), info |-> info, off |-> off, len |-> len]

KeySize(n) == IF n <= 0 THEN DefaultKeySize ELSE n

\* Variant: each key is read from a fresh HKDF reader, from byte 0.
DeriveFreshReaders(sharedSecret, transcriptHash, cfg, t) ==
    IF sharedSecret = "" THEN [err |-> "DeriveFailure", keys |-> ZeroKeys]
    ELSE IF transcriptHash = ZeroHash THEN [err |-> "DeriveFailure", keys |-> ZeroKeys]
    ELSE
      LET cks == KeySize(cfg.ClientKeySize)
          sks == KeySize(cfg.ServerKeySize)
          es == KeySize(cfg.ExporterSize)
          rot == IF cfg.RotationInterval <= 0 THEN DefaultRotationSecs
                 ELSE cfg.RotationInterval
          info == buildInfo(cfg.Mode, transcriptHash)
      IN [err |-> "ok",
          keys |-> [SessionID |-> deriveSessionID(transcriptHash, sharedSecret),
                    ClientToServer |-> HkdfRead(sharedSecret, cfg.Salt, info, 0, cks),
                    ServerToClient |-> HkdfRead(sharedSecret, cfg.Salt, info, 0, sks),
                    ExporterSecret |-> HkdfRead(sharedSecret, cfg.Salt, info, 0, es),
                    TranscriptHash |-> transcriptHash,
                    SharedSecret |-> sharedSecret,
                    EstablishedAt |-> t,
                    NextRotation |-> t + rot]]

Derive(sharedSecret, transcriptHash, cfg, t) ==
    IF sharedSecret = "" THEN [err |-> "DeriveFailure", keys |-> ZeroKeys]
    ELSE IF transcriptHash = ZeroHash THEN [err |-> "DeriveFailure", keys |-> ZeroKeys]
    ELSE
      LET cks == KeySize(cfg.ClientKeySize)
          sks == KeySize(cfg.ServerKeySize)
          es == KeySize(cfg.ExporterSize)
          rot == IF cfg.RotationInterval <= 0 THEN DefaultRotationSecs
                 ELSE cfg.RotationInterval
          info == buildInfo(cfg.Mode, transcriptHash)
      IN [err |-> "ok",
          keys |-> [SessionID |-> deriveSessionID(transcriptHash, sharedSecret),
                    ClientToServer |-> HkdfRead(sharedSecret, cfg.Salt, info, 0, cks),
                    ServerToClient |-> HkdfRead(sharedSecret, cfg.Salt, info, cks, sks),
                    ExporterSecret |-> HkdfRead(sharedSecret, cfg.Salt, info, cks + sks, es),
                    TranscriptHash |-> transcriptHash,
                    SharedSecret |-> sharedSecret,
                    EstablishedAt |-> t,
                    NextRotation |-> t + rot]]

ZeroConfirm == [key |-> ZeroKey, th |-> ZeroHash]
JunkConfirm == [key |-> JunkKey, th |-> JunkHash]

Confirm(key, transcriptHash) ==
    IF key.len = 0 THEN [err |-> "ConfirmFailure", tag |-> ZeroConfirm]
    ELSE IF transcriptHash = ZeroHash THEN [err |-> "ConfirmFailure", tag |-> ZeroConfirm]
    ELSE [err |-> "ok", tag |-> [key |-> key, th |-> transcriptHash]]

(***************************************************************************)
(* Handshake configurations.                                               *)
(***************************************************************************)
Modes == {"strict", "hybrid"}

BaseSched ==
    [Mode |-> "strict", RotationInterval |-> 600, ClientKeySize |-> 0,
     ServerKeySize |-> 0, ExporterSize |-> 0, Salt |-> ""]

\* scheduler.Config values a deployment may give either side.
ClientSchedCfgs ==
    {BaseSched,
     [BaseSched EXCEPT !.Mode = ""],
     [BaseSched EXCEPT !.Mode = "hybrid"],
     [BaseSched EXCEPT !.Salt = "zeros"],
     [BaseSched EXCEPT !.Salt = "salt1"],
     [BaseSched EXCEPT !.ClientKeySize = 16],
     [BaseSched EXCEPT !.ServerKeySize = 16],
     [BaseSched EXCEPT !.ExporterSize = 32],
     [BaseSched EXCEPT !.ExporterSize = 64]}

ServerSchedCfgs ==
    {BaseSched,
     [BaseSched EXCEPT !.RotationInterval = 0],
     [BaseSched EXCEPT !.ExporterSize = 64]}

\* NewClient / NewServer: an empty mode becomes "strict".
DefaultMode(mode) == IF mode = "" THEN "strict" ELSE mode

NewClient(mode, kemPk, sched) ==
    [Mode |-> DefaultMode(mode), ServerPublicKey |-> kemPk, Scheduler |-> sched,
     ServerSignatureKey |-> "sigS", Capabilities |-> "capsGrpc"]

\* Build is not a field of the Go struct: it names the platform the server
\* was compiled for, which decides conversions Go leaves to the platform.
NewServer(mode, sched) ==
    [Mode |-> DefaultMode(mode), KEMKeyPair |-> "kemS", SignatureKeyPair |-> "sigS",
     Capabilities |-> "capsGrpc", Scheduler |-> sched, Build |-> "truncating"]

(***************************************************************************)
(* Handshake messages.                                                     *)
(***************************************************************************)
NoInit ==
    [version |-> 0, mode |-> "", ts |-> TimeAt(0), nonce |-> "",
     ct |-> [to |-> "", r |-> "", flip |-> FALSE, short |-> FALSE], caps |-> ""]

ZeroPayload ==
    [version |-> 0, mode |-> "", ts |-> TimeAt(0), nonce |-> "", rot |-> 0, caps |-> ""]

ZeroSig == [signer |-> "", msg |-> ZeroHash]
JunkSig == [signer |-> "junk", msg |-> JunkHash]

ZeroResponse ==
    [Payload |-> ZeroPayload, TranscriptHash |-> ZeroHash,
     Signature |-> ZeroSig, Confirmation |-> ZeroConfirm]

NoPending ==
    [transcript |-> TranscriptNew(""), sharedSecret |-> "", clientNonce |-> ""]

\* RotationSecs is a uint32; the model gives it SecsBits bits.
SecsBits == 12
MaxSecs == 2 ^ SecsBits - 1

\* What a build does with a float64 outside the range of the unsigned
\* type: Go leaves it to the platform.
Platforms == {"truncating", "saturating"}

\* uint32(d.Seconds()): the whole seconds of a duration inside the range;
\* outside it, the low bits of the integer or the nearest bound.
Uint32Seconds(build, d) ==
    IF d >= 0 /\ d <= MaxSecs THEN d
    ELSE IF build = "truncating" THEN d % (MaxSecs + 1)
    ELSE IF d < 0 THEN 0 ELSE MaxSecs

(***************************************************************************)
(* Client.Initiate                                                         *)
(***************************************************************************)
Initiate ==
    /\ cInit = NoInit
    /\ LET clientNonce == "nC"
           enc == Encapsulate(cCfg.ServerPublicKey, "C")
           init == [version |-> ProtocolVersion, mode |-> cCfg.Mode,
                    ts |-> TimeAt(now), nonce |-> clientNonce,
                    ct |-> enc.ct, caps |-> cCfg.Capabilities]
           trans == TranscriptAppend(TranscriptNew("qsafe-handshake"),
                                     "client_init", initWithoutCiphertext(init))
       IN /\ cInit' = init
          /\ pending' = [transcript |-> trans, sharedSecret |-> enc.ss,
                         clientNonce |-> clientNonce]
    /\ UNCHANGED <<now, cCfg, sCfg, accepts, finishes, ssVars, limits, libVars, thVars, rotVars, polVars>>

(***************************************************************************)
(* Server.Accept: the result of one call on init at time t with the fresh  *)
(* server nonce.                                                           *)
(***************************************************************************)
AcceptFail(kind) == [err |-> kind, resp |-> ZeroResponse, keys |-> ZeroKeys]

AcceptResult(cfg, init, serverNonce, t) ==
    LET trans0 == TranscriptAppend(TranscriptNew("qsafe-handshake"),
                                   "client_init", initWithoutCiphertext(init))
        dec == Decapsulate(cfg.KEMKeyPair, init.ct)
        payload == [version |-> ProtocolVersion, mode |-> cfg.Mode,
                    ts |-> TimeAt(t), nonce |-> serverNonce,
                    rot |-> Uint32Seconds(cfg.Build, cfg.Scheduler.RotationInterval),
                    caps |-> cfg.Capabilities]
        trans == TranscriptAppend(trans0, "server_payload", MarshalPayload(payload))
        transHash == Snapshot(trans)
        der == Derive(dec.ss, transHash, cfg.Scheduler, t)
        signature == Sign(cfg.SignatureKeyPair, transHash)
        confirm == Confirm(der.keys.ServerToClient, transHash)
    IN IF ~Marshalable(UTC(init.ts)) THEN AcceptFail("TranscriptFailure")
       ELSE IF init.mode # cfg.Mode THEN AcceptFail("ModeMismatch")
       ELSE IF dec.err # "ok" THEN AcceptFail("KemFailure")
       ELSE IF der.err # "ok" THEN AcceptFail("DeriveFailure")
       ELSE IF confirm.err # "ok" THEN AcceptFail("ConfirmFailure")
       ELSE [err |-> "ok",
             resp |-> [Payload |-> payload, TranscriptHash |-> transHash,
                       Signature |-> signature, Confirmation |-> confirm.tag],
             keys |-> der.keys]

(***************************************************************************)
(* The network.  The attacker sees every message, holds the private keys   *)
(* "kemA" and "sigA" but not the server's, and hands Server.Accept and     *)
(* PendingClient.Finish messages of its choice.                            *)
(***************************************************************************)
OtherMode(m) == IF m = "strict" THEN "hybrid" ELSE "strict"
OtherCaps(c) == IF c = "capsGrpc" THEN "capsWs" ELSE "capsGrpc"

\* The fields of a ClientInit, and the init with one of them replaced.
InitFields == {"version", "mode", "instant", "year", "zone", "nonce", "caps",
               "ctFlip", "ctOwn", "ctShort"}

TamperInit(init, f) ==
    CASE f = "version" -> [init EXCEPT !.version = @ + 1]
      [] f = "mode" -> [init EXCEPT !.mode = OtherMode(@)]
      [] f = "instant" -> [init EXCEPT !.ts.inst = @ + 1]
      [] f = "year" -> [init EXCEPT !.ts.inst = FirstUnmarshalable]
      [] f = "zone" -> [init EXCEPT !.ts.off = 1]
      [] f = "nonce" -> [init EXCEPT !.nonce = "nA"]
      [] f = "caps" -> [init EXCEPT !.caps = OtherCaps(@)]
      [] f = "ctFlip" -> [init EXCEPT !.ct.flip = TRUE]
      [] f = "ctOwn" -> [init EXCEPT !.ct = KemCiphertext("kemS", "A")]
      [] f = "ctShort" -> [init EXCEPT !.ct.short = TRUE]
      [] OTHER -> init

\* A ClientInit the attacker builds itself, encapsulating to the server.
AttackerInit(mode) ==
    [version |-> ProtocolVersion, mode |-> mode, ts |-> TimeAt(now),
     nonce |-> "nA", ct |-> KemCiphertext("kemS", "A"), caps |-> "capsGrpc"]

InitsOnTheWire ==
    {AttackerInit(m) : m \in Modes}
      \cup {[AttackerInit(m) EXCEPT !.ts.inst = FirstUnmarshalable] : m \in Modes}
      \cup (IF cInit = NoInit THEN {}
            ELSE {cInit} \cup {TamperInit(cInit, f) : f \in InitFields})

Accept ==
    /\ Len(accepts) < limits.accepts
    /\ \E init \in InitsOnTheWire :
         \E r \in {AcceptResult(sCfg, init, "nS" \o ToString(Len(accepts) + 1), now)} :
            accepts' = Append(accepts, [init |-> init, err |-> r.err,
                                        resp |-> r.resp, keys |-> r.keys])
    /\ UNCHANGED <<now, cCfg, sCfg, cInit, pending, finishes, ssVars, limits, libVars, thVars, rotVars, polVars>>

(***************************************************************************)
(* PendingClient.Finish: the result of one call on resp at time t, and the *)
(* transcript the PendingClient holds afterwards.                          *)
(***************************************************************************)
\* Variant: the comparison loop never reports a difference.
constantTimeEqualAlways(a, b) == TRUE

constantTimeEqual(a, b) == a = b

FinishResult(p, cfg, resp, t) ==
    LET trans == TranscriptAppend(p.transcript, "server_payload",
                                  MarshalPayload(resp.Payload))
        calculated == Snapshot(trans)
        der == Derive(p.sharedSecret, resp.TranscriptHash, cfg.Scheduler, t)
        confirm == Confirm(der.keys.ServerToClient, resp.TranscriptHash)
        fail(kind) == [err |-> kind, keys |-> ZeroKeys, transcript |-> trans]
    IN IF resp.Payload.mode # cfg.Mode
       THEN [err |-> "ModeMismatch", keys |-> ZeroKeys, transcript |-> p.transcript]
       ELSE IF ~Marshalable(resp.Payload.ts)
       THEN [err |-> "TranscriptFailure", keys |-> ZeroKeys, transcript |-> p.transcript]
       ELSE IF ~constantTimeEqual(calculated, resp.TranscriptHash)
       THEN fail("TranscriptMismatch")
       ELSE IF ~Verify(cfg.ServerSignatureKey, resp.TranscriptHash, resp.Signature)
       THEN fail("SignatureInvalid")
       ELSE IF der.err # "ok" THEN fail("DeriveFailure")
       ELSE IF confirm.err # "ok" THEN fail("ConfirmFailure")
       ELSE IF ~constantTimeEqual(confirm.tag, resp.Confirmation)
       THEN fail("ConfirmationMismatch")
       ELSE [err |-> "ok", keys |-> der.keys, transcript |-> trans]

(***************************************************************************)
(* The responses the attacker can hand to Finish.                          *)
(***************************************************************************)
PayloadFields == {"version", "mode", "instant", "year", "zone", "nonce", "rot", "caps"}

TamperPayload(p, f) ==
    CASE f = "version" -> [p EXCEPT !.version = @ + 1]
      [] f = "mode" -> [p EXCEPT !.mode = OtherMode(@)]
      [] f = "instant" -> [p EXCEPT !.ts.inst = @ + 1]
      [] f = "year" -> [p EXCEPT !.ts.inst = FirstUnmarshalable]
      [] f = "zone" -> [p EXCEPT !.ts.off = 1]
      [] f = "nonce" -> [p EXCEPT !.nonce = "nA"]
      [] f = "rot" -> [p EXCEPT !.rot = @ + 1]
      [] f = "caps" -> [p EXCEPT !.caps = OtherCaps(@)]
      [] OTHER -> p

\* The digest the client will compute for payload p: every input is public.
ClientDigest(p) ==
    Snapshot(TranscriptAppend(pending.transcript, "server_payload", MarshalPayload(p)))

\* Shared secrets the attacker can compute: its own encapsulation, and the
\* client's when the client encapsulated to a key the attacker holds.
KnownSecrets ==
    {"ssA"} \cup (IF cCfg.ServerPublicKey = "kemA" THEN {pending.sharedSecret} ELSE {})

\* Confirmation tags the attacker can compute for digest h.
ForgedConfirms(h) ==
    {Confirm(Derive(ss, h, cCfg.Scheduler, now).keys.ServerToClient, h).tag :
        ss \in KnownSecrets}

\* Responses the server returned.
Returned == {accepts[i].resp : i \in {j \in 1..Len(accepts) : accepts[j].err = "ok"}}

\* The number of components in which resp differs from base.
Distance(resp, base) ==
    (IF resp.Payload # base.Payload THEN 1 ELSE 0)
    + (IF resp.TranscriptHash # base.TranscriptHash THEN 1 ELSE 0)
    + (IF resp.Signature # base.Signature THEN 1 ELSE 0)
    + (IF resp.Confirmation # base.Confirmation THEN 1 ELSE 0)

Rebuilt(base) ==
    UNION { UNION { UNION {
        { [Payload |-> p, TranscriptHash |-> h, Signature |-> s, Confirmation |-> c] :
            c \in {base.Confirmation, JunkConfirm} \cup ForgedConfirms(h) }
        : s \in {base.Signature, JunkSig, Sign("sigA", h)} }
        : h \in {base.TranscriptHash, JunkHash, ClientDigest(p)} }
        : p \in {base.Payload} \cup {TamperPayload(base.Payload, f) : f \in PayloadFields} }

\* A response made by the attacker alone.
Fabricated ==
    LET p == [version |-> ProtocolVersion, mode |-> cCfg.Mode, ts |-> TimeAt(now),
              nonce |-> "nA", rot |-> 0, caps |-> "capsGrpc"]
        h == ClientDigest(p)
    IN { [Payload |-> p, TranscriptHash |-> h, Signature |-> Sign("sigA", h),
          Confirmation |-> c] : c \in {JunkConfirm} \cup ForgedConfirms(h) }

\* Each response on the wire with the returned response it was made from
\* (ZeroResponse when the attacker made all of it).
ResponsesOnTheWire ==
    {[base |-> ZeroResponse, resp |-> r] : r \in Fabricated}
      \cup UNION { {[base |-> base, resp |-> r] :
                      r \in {x \in Rebuilt(base) : Distance(x, base) <= TamperBudget}} :
                   base \in Returned }

\* Variant: Finish appends to a copy of the accumulator.
AppendOnCopy(held, appended) == held

\* p.transcript.Append writes into the accumulator the PendingClient holds:
\* the accumulator after the call is the one appended to.
AppendInPlace(held, appended) == appended

Finish ==
    /\ cInit # NoInit
    /\ Len(finishes) < limits.finishes
    /\ \E w \in ResponsesOnTheWire :
         \E r \in {FinishResult(pending, cCfg, w.resp, now)} :
            /\ pending' = [pending EXCEPT !.transcript = AppendInPlace(@, r.transcript)]
            /\ finishes' = Append(finishes, [resp |-> w.resp, base |-> w.base,
                                             err |-> r.err, keys |-> r.keys])
    /\ UNCHANGED <<now, cCfg, sCfg, cInit, accepts, ssVars, limits, libVars, thVars, rotVars, polVars>>

(***************************************************************************)
(* pkg/session/replay: the sliding replay window.                          *)
(***************************************************************************)
DefaultDepth == 2048

ReplayNew(cfg) ==
    [depth |-> IF cfg.Depth = 0 THEN DefaultDepth ELSE cfg.Depth,
     highest |-> 0, seen |-> {}]

\* Variant: pruning forgets every sequence, the new highest included.
pruneAll(w) == IF w.depth = 0 THEN w ELSE [w EXCEPT !.seen = {}]

\* Variant: pruning keeps the sequence at the threshold.
pruneBelow(w) ==
    LET threshold == IF w.highest > w.depth THEN w.highest - w.depth ELSE 0
    IN IF w.depth = 0 THEN w
       ELSE [w EXCEPT !.seen = {q \in @ : q >= threshold}]

prune(w) ==
    LET threshold == IF w.highest > w.depth THEN w.highest - w.depth ELSE 0
    IN IF w.depth = 0 THEN w
       ELSE [w EXCEPT !.seen = {q \in @ : q > threshold}]

\* Variant: a sequence is stale only when further than depth behind.
WindowAcceptStaleBeyond(w, seq) ==
    IF seq = 0 THEN [err |-> "SeqInvalid", w |-> w]
    ELSE IF w.highest = 0
    THEN [err |-> "ok", w |-> [w EXCEPT !.highest = seq, !.seen = @ \cup {seq}]]
    ELSE IF seq > w.highest
    THEN [err |-> "ok", w |-> prune([w EXCEPT !.highest = seq, !.seen = @ \cup {seq}])]
    ELSE IF w.highest - seq > w.depth THEN [err |-> "ReplayStale", w |-> w]
    ELSE IF seq \in w.seen THEN [err |-> "ReplayDuplicate", w |-> w]
    ELSE [err |-> "ok", w |-> [w EXCEPT !.seen = @ \cup {seq}]]

\* Variant: no duplicate check.
WindowAcceptNoDuplicate(w, seq) ==
    IF seq = 0 THEN [err |-> "SeqInvalid", w |-> w]
    ELSE IF w.highest = 0
    THEN [err |-> "ok", w |-> [w EXCEPT !.highest = seq, !.seen = @ \cup {seq}]]
    ELSE IF seq > w.highest
    THEN [err |-> "ok", w |-> prune([w EXCEPT !.highest = seq, !.seen = @ \cup {seq}])]
    ELSE IF w.highest - seq >= w.depth THEN [err |-> "ReplayStale", w |-> w]
    ELSE [err |-> "ok", w |-> [w EXCEPT !.seen = @ \cup {seq}]]

\* Variant: no staleness check.
WindowAcceptNoStale(w, seq) ==
    IF seq = 0 THEN [err |-> "SeqInvalid", w |-> w]
    ELSE IF w.highest = 0
    THEN [err |-> "ok", w |-> [w EXCEPT !.highest = seq, !.seen = @ \cup {seq}]]
    ELSE IF seq > w.highest
    THEN [err |-> "ok", w |-> prune([w EXCEPT !.highest = seq, !.seen = @ \cup {seq}])]
    ELSE IF seq \in w.seen THEN [err |-> "ReplayDuplicate", w |-> w]
    ELSE [err |-> "ok", w |-> [w EXCEPT !.seen = @ \cup {seq}]]

\* Window.Accept: the error returned and the window afterwards.
\* Variant: a sequence accepted inside the window becomes the highest.
WindowAcceptLowering(w, seq) ==
    IF seq = 0 THEN [err |-> "SeqInvalid", w |-> w]
    ELSE IF w.highest = 0
    THEN [err |-> "ok", w |-> [w EXCEPT !.highest = seq, !.seen = @ \cup {seq}]]
    ELSE IF seq > w.highest
    THEN [err |-> "ok", w |-> prune([w EXCEPT !.highest = seq, !.seen = @ \cup {seq}])]
    ELSE IF w.highest - seq >= w.depth THEN [err |-> "ReplayStale", w |-> w]
    ELSE IF seq \in w.seen THEN [err |-> "ReplayDuplicate", w |-> w]
    ELSE [err |-> "ok", w |-> [w EXCEPT !.highest = seq, !.seen = @ \cup {seq}]]

WindowAccept(w, seq) ==
    IF seq = 0 THEN [err |-> "SeqInvalid", w |-> w]
    ELSE IF w.highest = 0
    THEN [err |-> "ok", w |-> [w EXCEPT !.highest = seq, !.seen = @ \cup {seq}]]
    ELSE IF seq > w.highest
    THEN [err |-> "ok", w |-> prune([w EXCEPT !.highest = seq, !.seen = @ \cup {seq}])]
    ELSE IF w.highest - seq >= w.depth THEN [err |-> "ReplayStale", w |-> w]
    ELSE IF seq \in w.seen THEN [err |-> "ReplayDuplicate", w |-> w]
    ELSE [err |-> "ok", w |-> [w EXCEPT !.seen = @ \cup {seq}]]

\* Window.Highest: the highest sequence observed so far.
Highest(w) == w.highest

(***************************************************************************)
(* pkg/session/rotation: the rotation manager.                             *)
(***************************************************************************)
DefaultSkewSecs == 5

\* Variant: New takes the configuration as given.
RotationNewAsGiven(cfg, start, epoch) ==
    [cfg |-> cfg, start |-> start, packets |-> 0, epoch |-> epoch]

RotationNew(cfg, start, epoch) ==
    [cfg |-> [Interval |-> IF cfg.Interval <= 0 THEN DefaultRotationSecs ELSE cfg.Interval,
              MaxPackets |-> cfg.MaxPackets,
              Skew |-> IF cfg.Skew <= 0 THEN DefaultSkewSecs ELSE cfg.Skew],
     start |-> start, packets |-> 0, epoch |-> epoch]

\* Variant: the packet threshold must be exceeded, not reached.
shouldRotateLockedAbove(m, t) ==
    IF m.cfg.MaxPackets > 0 /\ m.packets > m.cfg.MaxPackets THEN TRUE
    ELSE LET skew == IF m.cfg.Skew >= m.cfg.Interval THEN 0 ELSE m.cfg.Skew
             deadline == m.start + (m.cfg.Interval - skew)
         IN ~(t < deadline)

\* Variant: the skew is subtracted whatever the interval.
shouldRotateLockedAlwaysSkewed(m, t) ==
    IF m.cfg.MaxPackets > 0 /\ m.packets >= m.cfg.MaxPackets THEN TRUE
    ELSE ~(t < m.start + (m.cfg.Interval - m.cfg.Skew))

shouldRotateLocked(m, t) ==
    IF m.cfg.MaxPackets > 0 /\ m.packets >= m.cfg.MaxPackets THEN TRUE
    ELSE LET skew == IF m.cfg.Skew >= m.cfg.Interval THEN 0 ELSE m.cfg.Skew
             deadline == m.start + (m.cfg.Interval - skew)
         IN ~(t < deadline)

\* Variant: the manager starts a new epoch when the packet threshold is reached.
RecordRekeying(m) ==
    IF m.cfg.MaxPackets > 0 /\ m.packets + 1 >= m.cfg.MaxPackets
    THEN [m EXCEPT !.packets = 0, !.epoch = @ + 1]
    ELSE [m EXCEPT !.packets = @ + 1]

\* Manager.Record: the manager afterwards; the hint is shouldRotateLocked of it.
Record(m) == [m EXCEPT !.packets = @ + 1]

ShouldRotate(m, t) == shouldRotateLocked(m, t)

NextEpoch(m) == m.epoch

\* The epoch is a uint64; the model gives it EpochBits bits.
EpochBits == 3      \* width of the epoch counter
MaxEpoch == 2 ^ EpochBits - 1

\* Variant: Reset keeps the packet count.
ResetKeepingPackets(m, t) ==
    [m EXCEPT !.start = t, !.epoch = (@ + 1) % (MaxEpoch + 1)]

Reset(m, t) ==
    [m EXCEPT !.start = t, !.packets = 0, !.epoch = (@ + 1) % (MaxEpoch + 1)]

(***************************************************************************)
(* pkg/session/policy: the policy enforcer.                                *)
(***************************************************************************)
DefaultMinRotationSecs == 300     \* 5 * time.Minute
DefaultMaxRotationSecs == 3600    \* 60 * time.Minute

\* The elements of a list, as the keys of the map New builds from it.
Elements(list) == {list[i] : i \in 1..Len(list)}

\* A nil *Enforcer.
NoPolicy ==
    [modes |-> {}, aeads |-> {}, isNil |-> TRUE,
     cfg |-> [AllowedModes |-> <<>>, AllowedAEAD |-> <<>>,
              MinRotation |-> 0, MaxRotation |-> 0]]

PolicyNew(cfg) ==
    [modes |-> Elements(cfg.AllowedModes),
     aeads |-> Elements(cfg.AllowedAEAD),
     isNil |-> FALSE,
     cfg |-> [cfg EXCEPT
                !.MinRotation = IF @ <= 0 THEN DefaultMinRotationSecs ELSE @,
                !.MaxRotation = IF @ <= 0 THEN DefaultMaxRotationSecs ELSE @]]

\* Variant: the two rotation checks are made before the allow-list checks.
ValidateRotationFirst(e, params) ==
    IF params.RotationWindow < e.cfg.MinRotation THEN "PolicyRotationBelow"
    ELSE IF params.RotationWindow > e.cfg.MaxRotation THEN "PolicyRotationAbove"
    ELSE IF e.modes # {} /\ params.Mode \notin e.modes THEN "PolicyMode"
    ELSE IF e.aeads # {} /\ params.AEAD \notin e.aeads THEN "PolicyAead"
    ELSE "ok"

\* Enforcer.Validate: the error returned ("ok" for nil).
Validate(e, params) ==
    IF e.modes # {} /\ params.Mode \notin e.modes THEN "PolicyMode"
    ELSE IF e.aeads # {} /\ params.AEAD \notin e.aeads THEN "PolicyAead"
    ELSE IF params.RotationWindow < e.cfg.MinRotation THEN "PolicyRotationBelow"
    ELSE IF params.RotationWindow > e.cfg.MaxRotation THEN "PolicyRotationAbove"
    ELSE "ok"

(***************************************************************************)
(* pkg/session/state: byte strings of the record layer.  A string is the   *)
(* sequence of its bytes.                                                  *)
(***************************************************************************)
RoleClient == 0
RoleServer == 1
Roles == {RoleClient, RoleServer}

peer(r) == IF r = RoleClient THEN RoleServer ELSE RoleClient

\* "meta:v1;"
MetaPrefix == <<109, 101, 116, 97, 58, 118, 49, 59>>
ByteEq == 61      \* '='
ByteSemi == 59    \* ';'

\* Go's string order: byte-wise lexicographic.
RECURSIVE StringLess(_, _)
StringLess(a, b) ==
    IF b = <<>> THEN FALSE
    ELSE IF a = <<>> THEN TRUE
    ELSE IF Head(a) # Head(b) THEN Head(a) < Head(b)
    ELSE StringLess(Tail(a), Tail(b))

\* sort.Strings over the keys of a map.
RECURSIVE SortStrings(_)
SortStrings(S) ==
    IF S = {} THEN <<>>
    ELSE LET m == CHOOSE x \in S : \A y \in S \ {x} : StringLess(x, y)
         IN <<m>> \o SortStrings(S \ {m})

RECURSIVE WritePairs(_, _)
WritePairs(keys, metadata) ==
    IF keys = <<>> THEN <<>>
    ELSE Head(keys) \o <<ByteEq>> \o metadata[Head(keys)] \o <<ByteSemi>>
           \o WritePairs(Tail(keys), metadata)

metadataAAD(metadata) ==
    IF DOMAIN metadata = {} THEN MetaPrefix
    ELSE MetaPrefix \o WritePairs(SortStrings(DOMAIN metadata), metadata)

\* copyMap: nil for an empty map, else an equal map.
NilMap == <<>>
copyMap(in) == IF DOMAIN in = {} THEN NilMap ELSE in

NonceLen == 24

\* Variant: the sequence left out of the hashed input.
computeNonceWithoutSeq(sessionID, seq, role) ==
    [sid |-> sessionID, seq |-> 0, role |-> role, flip |-> FALSE]

\* computeNonce: the first 24 bytes of BLAKE3 keyed with the session id over
\* the big-endian sequence and the role byte.
computeNonce(sessionID, seq, role) ==
    [sid |-> sessionID, seq |-> seq, role |-> role, flip |-> FALSE]

\* XChaCha20-Poly1305.
AeadKeySize == 32
NoPlaintext == ""

Seal(key, nonce, plaintext, aad) ==
    [key |-> key, nonce |-> nonce, pt |-> plaintext, aad |-> aad, flip |-> FALSE]

\* Variant: the associated data is not authenticated.
OpenWithoutAad(key, nonce, ciphertext, aad) ==
    IF /\ ciphertext.key = key
       /\ ciphertext.nonce = nonce
       /\ ~ciphertext.flip
    THEN [err |-> "ok", pt |-> ciphertext.pt]
    ELSE [err |-> "AeadFailure", pt |-> NoPlaintext]

Open(key, nonce, ciphertext, aad) ==
    IF /\ ciphertext.key = key
       /\ ciphertext.nonce = nonce
       /\ ciphertext.aad = aad
       /\ ~ciphertext.flip
    THEN [err |-> "ok", pt |-> ciphertext.pt]
    ELSE [err |-> "AeadFailure", pt |-> NoPlaintext]

directionalKeys(role, keys) ==
    IF role = RoleClient
    THEN [send |-> keys.ClientToServer, recv |-> keys.ServerToClient]
    ELSE [send |-> keys.ServerToClient, recv |-> keys.ClientToServer]

\* buildCiphers: chacha20poly1305.NewX takes 32-byte keys only.
buildCiphers(name, sendKey, recvKey) ==
    IF name # "xchacha20poly1305" THEN "UnsupportedAead"
    ELSE IF sendKey.len # AeadKeySize \/ recvKey.len # AeadKeySize THEN "BadKeyLength"
    ELSE "ok"

(***************************************************************************)
(* Session: NewSession, Encrypt, Decrypt.                                  *)
(***************************************************************************)
EmptyNonce == [sid |-> [ss |-> "", th |-> ZeroHash], seq |-> 0, role |-> 0, flip |-> FALSE]

NonceLength(n) == IF n = EmptyNonce THEN 0 ELSE NonceLen

NoSession ==
    [role |-> RoleClient, mode |-> "", aeadName |-> "",
     sessionID |-> [ss |-> "", th |-> ZeroHash],
     sendKey |-> ZeroKey, recvKey |-> ZeroKey, sendSeq |-> 0,
     rotation |-> RotationNew([Interval |-> 0, MaxPackets |-> 0, Skew |-> 0], 0, 0),
     recvWindow |-> ReplayNew([Depth |-> 0]), policy |-> NoPolicy, established |-> 0]

\* Variant: the verdict of the policy is not looked at.
PolicyNeverRejects(policy, verdict) == FALSE

\* if cfg.Policy != nil { if err := cfg.Policy.Validate(...); err != nil {
PolicyRejects(policy, verdict) == ~policy.isNil /\ verdict # "ok"

\* NewSession: the error, the Session, and the Validate calls it made.
NewSession(cfg) ==
    LET mode == IF cfg.Mode = "" THEN "strict" ELSE cfg.Mode
        aead == IF cfg.AEAD = "" THEN "xchacha20poly1305" ELSE cfg.AEAD
        params == [Mode |-> mode, AEAD |-> aead,
                   RotationWindow |-> cfg.Keys.NextRotation - cfg.Keys.EstablishedAt]
        verdict == Validate(cfg.Policy, params)
        validated == IF cfg.Policy.isNil THEN <<>>
                     ELSE <<[params |-> params, err |-> verdict]>>
        dk == directionalKeys(cfg.Role, cfg.Keys)
        built0 == buildCiphers(aead, dk.send, dk.recv)
        window == ReplayNew(cfg.Replay)
        keyWindow == cfg.Keys.NextRotation - cfg.Keys.EstablishedAt
        interval0 == IF keyWindow <= 0 THEN cfg.Rotation.Interval ELSE keyWindow
        interval == IF interval0 <= 0 THEN DefaultRotationSecs ELSE interval0
        rotationCfg == IF cfg.Rotation.Interval <= 0
                       THEN [cfg.Rotation EXCEPT !.Interval = interval]
                       ELSE cfg.Rotation
        manager == RotationNew(rotationCfg, cfg.Keys.EstablishedAt, cfg.Epoch)
    IN IF cfg.Role \notin Roles
       THEN [err |-> "InvalidRole", s |-> NoSession, validated |-> <<>>]
       ELSE IF PolicyRejects(cfg.Policy, verdict)
       THEN [err |-> verdict, s |-> NoSession, validated |-> validated]
       ELSE IF built0 # "ok" THEN [err |-> built0, s |-> NoSession, validated |-> validated]
       ELSE [err |-> "ok",
             s |-> [role |-> cfg.Role, mode |-> mode, aeadName |-> aead,
                    sessionID |-> cfg.Keys.SessionID,
                    sendKey |-> dk.send, recvKey |-> dk.recv, sendSeq |-> 0,
                    rotation |-> manager, recvWindow |-> window,
                    policy |-> cfg.Policy,
                    established |-> cfg.Keys.EstablishedAt],
             validated |-> validated]

\* Session.Encrypt at time t: the envelope, the rotate hint, the session after.
\* Variant: an Encrypt that returns the hint restarts the rotation manager.
SessionEncryptRestarting(s, plaintext, metadata, t) ==
    LET metaCopy == copyMap(metadata)
        aad == metadataAAD(metaCopy)
        seq == s.sendSeq + 1
        nonce == computeNonce(s.sessionID, seq, s.role)
        manager == Record(s.rotation)
        shouldRotate == shouldRotateLocked(manager, t)
        ciphertext == Seal(s.sendKey, nonce, plaintext, aad)
    IN [env |-> [Ciphertext |-> ciphertext, Nonce |-> nonce, Sequence |-> seq,
                 Epoch |-> NextEpoch(manager), Metadata |-> metaCopy],
        rotate |-> shouldRotate,
        s |-> [s EXCEPT !.sendSeq = seq,
                        !.rotation = IF shouldRotate THEN Reset(manager, t) ELSE manager]]

SessionEncrypt(s, plaintext, metadata, t) ==
    LET metaCopy == copyMap(metadata)
        aad == metadataAAD(metaCopy)
        seq == s.sendSeq + 1    \* uint64; MaxSend keeps it far from wrapping
        nonce == computeNonce(s.sessionID, seq, s.role)
        manager == Record(s.rotation)
        shouldRotate == shouldRotateLocked(manager, t)
        ciphertext == Seal(s.sendKey, nonce, plaintext, aad)
    IN [env |-> [Ciphertext |-> ciphertext, Nonce |-> nonce, Sequence |-> seq,
                 Epoch |-> NextEpoch(manager), Metadata |-> metaCopy],
        rotate |-> shouldRotate,
        s |-> [s EXCEPT !.sendSeq = seq, !.rotation = manager]]

\* Variant: Decrypt opens with the key and the role of its own direction.
SessionDecryptOwnDirection(s, env, t) ==
    LET acc == WindowAccept(s.recvWindow, env.Sequence)
        s1 == [s EXCEPT !.recvWindow = acc.w]
        expectedNonce == computeNonce(s.sessionID, env.Sequence, s.role)
        aad == metadataAAD(env.Metadata)
        opn == Open(s.sendKey, expectedNonce, env.Ciphertext, aad)
        fail(kind, after) == [err |-> kind, pt |-> NoPlaintext, rotate |-> FALSE, s |-> after]
    IN IF env.Sequence = 0 THEN fail("SeqInvalid", s)
       ELSE IF acc.err # "ok" THEN fail(acc.err, s1)
       ELSE IF NonceLength(env.Nonce) > 0 /\ env.Nonce # expectedNonce
       THEN fail("NonceMismatch", s1)
       ELSE IF opn.err # "ok" THEN fail("AeadFailure", s1)
       ELSE [err |-> "ok", pt |-> opn.pt, rotate |-> ShouldRotate(s1.rotation, t), s |-> s1]

\* Variant: Decrypt refuses an envelope of another epoch than its own.
SessionDecryptComparingEpoch(s, env, t) ==
    LET acc == WindowAccept(s.recvWindow, env.Sequence)
        s1 == [s EXCEPT !.recvWindow = acc.w]
        expectedNonce == computeNonce(s.sessionID, env.Sequence, peer(s.role))
        aad == metadataAAD(env.Metadata)
        opn == Open(s.recvKey, expectedNonce, env.Ciphertext, aad)
        fail(kind, after) == [err |-> kind, pt |-> NoPlaintext, rotate |-> FALSE, s |-> after]
    IN IF env.Sequence = 0 THEN fail("SeqInvalid", s)
       ELSE IF env.Epoch # NextEpoch(s.rotation) THEN fail("EpochMismatch", s)
       ELSE IF acc.err # "ok" THEN fail(acc.err, s1)
       ELSE IF NonceLength(env.Nonce) > 0 /\ env.Nonce # expectedNonce
       THEN fail("NonceMismatch", s1)
       ELSE IF opn.err # "ok" THEN fail("AeadFailure", s1)
       ELSE [err |-> "ok", pt |-> opn.pt, rotate |-> ShouldRotate(s1.rotation, t), s |-> s1]

\* Session.Decrypt at time t: the plaintext, the rotate hint, the error, the
\* session after.
SessionDecrypt(s, env, t) ==
    LET acc == WindowAccept(s.recvWindow, env.Sequence)
        s1 == [s EXCEPT !.recvWindow = acc.w]
        expectedNonce == computeNonce(s.sessionID, env.Sequence, peer(s.role))
        aad == metadataAAD(env.Metadata)
        opn == Open(s.recvKey, expectedNonce, env.Ciphertext, aad)
        fail(kind, after) == [err |-> kind, pt |-> NoPlaintext, rotate |-> FALSE, s |-> after]
    IN IF env.Sequence = 0 THEN fail("SeqInvalid", s)
       ELSE IF acc.err # "ok" THEN fail(acc.err, s1)
       ELSE IF NonceLength(env.Nonce) > 0 /\ env.Nonce # expectedNonce
       THEN fail("NonceMismatch", s1)
       ELSE IF opn.err # "ok" THEN fail("AeadFailure", s1)
       ELSE [err |-> "ok", pt |-> opn.pt, rotate |-> ShouldRotate(s1.rotation, t), s |-> s1]

(***************************************************************************)
(* Envelopes on the wire: what the peer's Encrypt returned, as it is, with *)
(* one bit flipped, or with its Nonce field left out.                      *)
(***************************************************************************)
FlipBits == {0, 1}    \* the bits of a metadata byte that are flipped

FlipBit(n, i) == IF (n \div (2 ^ i)) % 2 = 1 THEN n - 2 ^ i ELSE n + 2 ^ i

\* The maps that result from flipping one bit of one key or value.  A key
\* that becomes equal to another key leaves one entry with either value.
MetaFlips(metadata) ==
    LET keys == DOMAIN metadata
        rekey(k, k2, v) ==
            [x \in (keys \ {k}) \cup {k2} |-> IF x = k2 THEN v ELSE metadata[x]]
        keyFlips ==
            UNION { UNION { UNION {
                LET k2 == [k EXCEPT ![pos] = FlipBit(@, b)]
                IN IF k2 \in keys THEN {rekey(k, k2, metadata[k]), rekey(k, k2, metadata[k2])}
                   ELSE {rekey(k, k2, metadata[k])}
                : b \in FlipBits } : pos \in 1..Len(k) } : k \in keys }
        valueFlips ==
            UNION { UNION {
                { [metadata EXCEPT ![k][pos] = FlipBit(@, b)] : b \in FlipBits }
                : pos \in 1..Len(metadata[k]) } : k \in keys }
    IN keyFlips \cup valueFlips

Tampered(env) ==
    {[kind |-> "none", env |-> env],
     [kind |-> "ciphertext", env |-> [env EXCEPT !.Ciphertext.flip = TRUE]],
     [kind |-> "nonce", env |-> [env EXCEPT !.Nonce.flip = TRUE]]}
      \cup {[kind |-> "sequence", env |-> [env EXCEPT !.Sequence = FlipBit(@, i)]] :
               i \in 0..(SeqBits - 1)}
      \cup {[kind |-> "metadata", env |-> [env EXCEPT !.Metadata = m]] :
               m \in MetaFlips(env.Metadata)}

\* The envelope with its Nonce field left out.
Stripped(env) == {[kind |-> "nonceless", env |-> [env EXCEPT !.Nonce = EmptyNonce]]}

\* Metadata maps whose keys or values hold the bytes "=" and ";" that
\* metadataAAD writes between them.
MetaJoined == (<<97>> :> <<98, 59, 99, 61, 100>>)          \* {"a": "b;c=d"}
MetaSplit == (<<97>> :> <<98>>) @@ (<<99>> :> <<100>>)     \* {"a": "b", "c": "d"}
MetaKeyEq == (<<97, 61, 98>> :> <<99>>)                    \* {"a=b": "c"}
MetaValEq == (<<97>> :> <<98, 61, 99>>)                    \* {"a": "b=c"}
MetaShapes == {MetaJoined, MetaSplit, MetaKeyEq, MetaValEq}

\* The envelope with its Metadata map replaced by another map.
Remapped(env) ==
    {[kind |-> "remap", env |-> [env EXCEPT !.Metadata = m]] :
        m \in (MetaShapes \cup {NilMap}) \ {env.Metadata}}

\* The envelope with another value in its Epoch field.
WireEpochs == {0, 1, 2, MaxEpoch}
Reepoched(env) ==
    {[kind |-> "epoch", env |-> [env EXCEPT !.Epoch = e]] : e \in WireEpochs \ {env.Epoch}}

\* What a run hands to Decrypt for an envelope the peer made.
Delivered(env) ==
    Tampered(env) \cup (IF limits.strip THEN Stripped(env) ELSE {})
                  \cup (IF "remap" \in limits.forge THEN Remapped(env) ELSE {})
                  \cup (IF "epoch" \in limits.forge THEN Reepoched(env) ELSE {})

(***************************************************************************)
(* The sessions of one handshake.                                          *)
(***************************************************************************)
HsClient == NewClient("strict", "kemS", BaseSched)
HsServer == NewServer("strict", BaseSched)

\* The digest of the transcript the two sides of that handshake share, with
\* its two contributions abbreviated to their labels.
HsDigest ==
    Snapshot(TranscriptAppend(TranscriptAppend(TranscriptNew("qsafe-handshake"),
                                               "client_init", "init"),
                              "server_payload", "payload"))

\* The scheduler.Keys the handshake gave the role: both sides derived them
\* from the same shared secret and digest under the same configuration.
HandshakeKeys(role) ==
    IF role = RoleClient
    THEN Derive(Encapsulate(HsClient.ServerPublicKey, "C").ss, HsDigest,
                HsClient.Scheduler, 0).keys
    ELSE Derive(Decapsulate(HsServer.KEMKeyPair,
                            Encapsulate(HsClient.ServerPublicKey, "C").ct).ss,
                HsDigest, HsServer.Scheduler, 0).keys

SessionConfig(role, depth) ==
    [Role |-> role, Mode |-> "strict", AEAD |-> "xchacha20poly1305",
     Keys |-> HandshakeKeys(role),
     Rotation |-> [Interval |-> 0, MaxPackets |-> 2, Skew |-> 0],
     Replay |-> [Depth |-> depth], Policy |-> NoPolicy, Epoch |-> 1]

Depths == {0, 1, 2}

\* Plaintext and metadata given to Encrypt.
MetaGreeting == (<<97>> :> <<58>>) @@ (<<99>> :> <<121>>)    \* {"a": ":", "c": "y"}
EncryptInputs ==
    {[pt |-> "hello quantum", meta |-> MetaGreeting], [pt |-> "ack", meta |-> NilMap]}

\* Further metadata given to Encrypt in the runs that replace the map.
ForgeInputs ==
    IF "remap" \in limits.forge
    THEN {[pt |-> "hello quantum", meta |-> m] : m \in MetaShapes}
    ELSE {}

Encrypt(r) ==
    /\ sess[r] # NoSession
    /\ Len(sent[RoleClient]) + Len(sent[RoleServer]) < limits.sends
    /\ \E in \in EncryptInputs \cup ForgeInputs :
         \E res \in {SessionEncrypt(sess[r], in.pt, in.meta, now)} :
            /\ sess' = [sess EXCEPT ![r] = res.s]
            /\ sent' = [sent EXCEPT ![r] = Append(@, [env |-> res.env, pt |-> in.pt,
                                                      meta |-> in.meta,
                                                      rotate |-> res.rotate])]
            /\ last' = [last EXCEPT !.hinted = @ \cup (IF res.rotate THEN {r} ELSE {})]
    /\ UNCHANGED <<now, hsVars, handed, opened, limits, libVars, thVars, rotVars, polVars>>

NoEnvelope ==
    [Ciphertext |-> Seal(ZeroKey, EmptyNonce, NoPlaintext, <<>>), Nonce |-> EmptyNonce,
     Sequence |-> 0, Epoch |-> 0, Metadata |-> NilMap]

\* The last Decrypt call and its result; hinted holds the roles whose Session
\* has returned rotate = true from an Encrypt or a Decrypt so far.
NoCall ==
    [to |-> RoleClient, kind |-> "", env |-> NoEnvelope, orig |-> NoEnvelope,
     first |-> FALSE, again |-> FALSE, before |-> ReplayNew([Depth |-> 0]),
     err |-> "", pt |-> NoPlaintext, rotate |-> FALSE, from |-> RoleClient,
     hinted |-> {}]

Decrypt(r) ==
    /\ sess[r] # NoSession
    /\ \E i \in 1..Len(sent[peer(r)]) :
      \E tam \in Delivered(sent[peer(r)][i].env) :
        \E res \in {SessionDecrypt(sess[r], tam.env, now)} :
           /\ sess' = [sess EXCEPT ![r] = res.s]
           /\ handed' = [handed EXCEPT ![r] =
                           IF tam.kind = "none" THEN @ \cup {tam.env} ELSE @]
           /\ opened' = [opened EXCEPT ![r] =
                           IF res.err = "ok" THEN @ \cup {tam.env} ELSE @]
           /\ last' = [to |-> r, kind |-> tam.kind, env |-> tam.env,
                       orig |-> sent[peer(r)][i].env,
                       first |-> (tam.kind = "none" /\ tam.env \notin handed[r]),
                       again |-> (tam.env \in opened[r]),
                       before |-> sess[r].recvWindow,
                       err |-> res.err, pt |-> res.pt, rotate |-> res.rotate,
                       from |-> peer(r),
                       hinted |-> last.hinted \cup (IF res.rotate THEN {r} ELSE {})]
           /\ UNCHANGED <<now, hsVars, sent, limits, libVars, thVars, rotVars, polVars>>

\* A second Session of the same role built from the same keys.
Twin(r) == NewSession(SessionConfig(r, sess[r].recvWindow.depth)).s

\* Decrypt called on the Session of role r, or on its twin, with an envelope
\* that the Encrypt of the Session of role r returned.
Reflect(r) ==
    /\ sess[r] # NoSession
    /\ \E i \in 1..Len(sent[r]) :
      \E tam \in Delivered(sent[r][i].env) :
        \E target \in {sess[r], Twin(r)} :
          \E res \in {SessionDecrypt(target, tam.env, now)} :
           /\ sess' = [sess EXCEPT ![r] = IF target = sess[r] THEN res.s ELSE @]
           /\ opened' = [opened EXCEPT ![r] =
                           IF res.err = "ok" THEN @ \cup {tam.env} ELSE @]
           /\ last' = [to |-> r, kind |-> tam.kind, env |-> tam.env,
                       orig |-> sent[r][i].env,
                       first |-> FALSE,
                       again |-> (tam.env \in opened[r]),
                       before |-> target.recvWindow,
                       err |-> res.err, pt |-> res.pt, rotate |-> res.rotate,
                       from |-> r,
                       hinted |-> last.hinted \cup
                                    (IF target = sess[r] /\ res.rotate THEN {r} ELSE {})]
           /\ UNCHANGED <<now, hsVars, sent, handed, limits, libVars, thVars, rotVars,
                          polVars>>

(***************************************************************************)
(* Session.Encrypt called by several threads: the steps of one call.  The  *)
(* Session is the client's; sendMu is held from Lock to the return.        *)
(***************************************************************************)
MaxThreads == 2     \* threads calling Encrypt on one Session
MaxCalls == 3       \* Encrypt calls begun per run, all threads together
NoThread == 0
Threads == 1..MaxThreads

NoEncrypt ==
    [pc |-> "idle", pt |-> NoPlaintext, meta |-> NilMap, aad |-> <<>>,
     ticket |-> 0, env |-> NoEnvelope, rotate |-> FALSE, log |-> <<>>]

\* Variant: Lock does not wait for the holder.
LockTaken(mu) == TRUE

\* sync.Mutex.Lock returns only when no thread holds the mutex.
LockFree(mu) == mu = NoThread

Begun ==
    LET RECURSIVE Sum(_)
        Sum(T) == IF T = {} THEN 0
                  ELSE LET t == CHOOSE x \in T : TRUE
                       IN Len(calls[t].log) + (IF calls[t].pc = "idle" THEN 0 ELSE 1)
                            + Sum(T \ {t})
    IN Sum(Threads)

\* plaintext nil check, copyMap, metadataAAD: before the lock.
EncryptEnter(t) ==
    /\ calls[t].pc = "idle"
    /\ sess[RoleClient] # NoSession
    /\ Begun < limits.sends
    /\ \E in \in EncryptInputs :
         calls' = [calls EXCEPT ![t].pc = "copied", ![t].pt = in.pt,
                                ![t].meta = copyMap(in.meta),
                                ![t].aad = metadataAAD(copyMap(in.meta))]
    /\ UNCHANGED <<now, hsVars, ssVars, limits, libVars, sendMu, lockOrder, rotVars, polVars>>

\* s.sendMu.Lock()
EncryptLock(t) ==
    /\ calls[t].pc = "copied"
    /\ LockFree(sendMu)
    /\ sendMu' = t
    /\ lockOrder' = Append(lockOrder, t)
    /\ calls' = [calls EXCEPT ![t].pc = "locked", ![t].ticket = Len(lockOrder) + 1]
    /\ UNCHANGED <<now, hsVars, ssVars, limits, libVars, rotVars, polVars>>

\* s.sendSeq++
EncryptIncrement(t) ==
    /\ calls[t].pc = "locked"
    /\ sess' = [sess EXCEPT ![RoleClient].sendSeq = @ + 1]
    /\ calls' = [calls EXCEPT ![t].pc = "incremented"]
    /\ UNCHANGED <<now, hsVars, sent, handed, opened, last, limits, libVars,
                   sendMu, lockOrder, rotVars, polVars>>

\* seq := s.sendSeq, computeNonce, rotation.Record, Seal, the Envelope.
EncryptSeal(t) ==
    /\ calls[t].pc = "incremented"
    /\ LET s0 == sess[RoleClient]
           seq == s0.sendSeq
           nonce == computeNonce(s0.sessionID, seq, s0.role)
           manager == Record(s0.rotation)
           ciphertext == Seal(s0.sendKey, nonce, calls[t].pt, calls[t].aad)
       IN /\ sess' = [sess EXCEPT ![RoleClient].rotation = manager]
          /\ calls' = [calls EXCEPT
                         ![t].pc = "sealed",
                         ![t].rotate = shouldRotateLocked(manager, now),
                         ![t].env = [Ciphertext |-> ciphertext, Nonce |-> nonce,
                                     Sequence |-> seq, Epoch |-> NextEpoch(manager),
                                     Metadata |-> calls[t].meta]]
    /\ UNCHANGED <<now, hsVars, sent, handed, opened, last, limits, libVars,
                   sendMu, lockOrder, rotVars, polVars>>

\* return env, shouldRotate, nil; the deferred s.sendMu.Unlock().
EncryptReturn(t) ==
    /\ calls[t].pc = "sealed"
    /\ sendMu' = NoThread
    /\ sent' = [sent EXCEPT ![RoleClient] =
                  Append(@, [env |-> calls[t].env, pt |-> calls[t].pt,
                             meta |-> calls[t].meta, rotate |-> calls[t].rotate])]
    /\ calls' = [calls EXCEPT
                   ![t] = [NoEncrypt EXCEPT
                             !.log = Append(calls[t].log,
                                            [ticket |-> calls[t].ticket,
                                             seq |-> calls[t].env.Sequence,
                                             rotate |-> calls[t].rotate])]]
    /\ UNCHANGED <<now, hsVars, sess, handed, opened, last, limits, libVars,
                   lockOrder, rotVars, polVars>>

(***************************************************************************)
(* A rotation.Manager used on its own.                                     *)
(***************************************************************************)
MaxClock == 8       \* the instants given to the manager's methods
MaxRecords == 3     \* Record calls per epoch
MaxResets == 1      \* Reset calls per run
Clock == 0..MaxClock

NoAsk == [op |-> "", t |-> 0, hint |-> FALSE, epoch |-> 0,
          before |-> RotationNew([Interval |-> 0, MaxPackets |-> 0, Skew |-> 0], 0, 0),
          prev |-> ""]

NoManager ==
    [cfg |-> [Interval |-> 0, MaxPackets |-> 0, Skew |-> 0], start |-> 0, epoch |-> 0,
     resets |-> 0]

ManagerRecord(t) ==
    /\ mgr.packets < MaxRecords
    /\ mgr' = Record(mgr)
    /\ asked' = [op |-> "Record", t |-> t,
                 hint |-> shouldRotateLocked(Record(mgr), t), epoch |-> mgr.epoch,
                 before |-> mgr, prev |-> asked.op]
    /\ UNCHANGED <<now, hsVars, ssVars, limits, libVars, thVars, made, polVars>>

ManagerShouldRotate(t) ==
    /\ asked' = [op |-> "ShouldRotate", t |-> t,
                 hint |-> ShouldRotate(mgr, t), epoch |-> mgr.epoch, before |-> mgr, prev |-> asked.op]
    /\ UNCHANGED <<now, hsVars, ssVars, limits, libVars, thVars, mgr, made, polVars>>

ManagerNextEpoch ==
    /\ asked' = [op |-> "NextEpoch", t |-> 0, hint |-> FALSE, epoch |-> NextEpoch(mgr),
                 before |-> mgr, prev |-> asked.op]
    /\ UNCHANGED <<now, hsVars, ssVars, limits, libVars, thVars, mgr, made, polVars>>

ManagerReset(t) ==
    /\ made.resets < MaxResets
    /\ mgr' = Reset(mgr, t)
    /\ made' = [made EXCEPT !.resets = @ + 1]
    /\ asked' = [op |-> "Reset", t |-> t, hint |-> FALSE, epoch |-> mgr.epoch,
                 before |-> mgr, prev |-> asked.op]
    /\ UNCHANGED <<now, hsVars, ssVars, limits, libVars, thVars, polVars>>

(***************************************************************************)
(* A replay.Window used on its own: Accept as one call, and as the steps   *)
(* of a call made by one of several threads.                               *)
(***************************************************************************)
MaxAcceptCalls == 5     \* Window.Accept calls per run
MaxSeq == 5             \* the highest sequence number given to Accept
MaxOverlapping == 3     \* Accept calls per run when threads make them
WindowDepths == {1, 2, 4}
WindowSeqs == 0..MaxSeq

\* Window.Accept(seq), called and returned with no other call in between.
WindowCall(seq) ==
    /\ Len(winLog) < MaxAcceptCalls
    /\ \E res \in {WindowAccept(win, seq)} :
         /\ win' = res.w
         /\ winLog' = Append(winLog, [t |-> NoThread, seq |-> seq, err |-> res.err,
                                       began |-> Len(winLog)])
    /\ UNCHANGED <<now, hsVars, ssVars, limits, thVars, rotVars, polVars,
                   winMu, winCalls, recvCalls, ops, accs, snaps>>

\* A thread's call of Accept: where it is, its argument, the branch it
\* chose, its result, and how many calls had returned when it began.
NoAccept == [pc |-> "idle", seq |-> 0, branch |-> "", err |-> "", began |-> 0]

\* Variant: Lock does not wait for the holder.
WindowLockTaken(mu) == TRUE

\* w.mu.Lock() returns only when no thread holds the mutex.
WindowLockFree(mu) == mu = NoThread

AcceptsBegun ==
    Len(winLog) + Cardinality({t \in Threads : winCalls[t].pc # "idle"})

\* if seq == 0 { return error }: before the lock.
AcceptEnter(t, seq) ==
    /\ winCalls[t].pc = "idle"
    /\ AcceptsBegun < limits.accepts
    /\ IF seq = 0
       THEN /\ winLog' = Append(winLog, [t |-> t, seq |-> seq, err |-> "SeqInvalid",
                                          began |-> Len(winLog)])
            /\ UNCHANGED winCalls
       ELSE /\ winCalls' = [winCalls EXCEPT ![t] = [NoAccept EXCEPT !.pc = "entered",
                                                                   !.seq = seq,
                                                                   !.began = Len(winLog)]]
            /\ UNCHANGED winLog
    /\ UNCHANGED <<now, hsVars, ssVars, limits, thVars, rotVars, polVars,
                   win, winMu, recvCalls, ops, accs, snaps>>

\* w.mu.Lock()
AcceptLock(t) ==
    /\ winCalls[t].pc = "entered"
    /\ WindowLockFree(winMu)
    /\ winMu' = t
    /\ winCalls' = [winCalls EXCEPT ![t].pc = "locked"]
    /\ UNCHANGED <<now, hsVars, ssVars, limits, thVars, rotVars, polVars,
                   win, winLog, recvCalls, ops, accs, snaps>>

\* The conditions of the if statements, read from the window.
AcceptDecide(t) ==
    /\ winCalls[t].pc = "locked"
    /\ LET seq == winCalls[t].seq
           branch == IF win.highest = 0 THEN "first"
                     ELSE IF seq > win.highest THEN "higher"
                     ELSE IF win.highest - seq >= win.depth THEN "stale"
                     ELSE IF seq \in win.seen THEN "duplicate"
                     ELSE "record"
       IN winCalls' = [winCalls EXCEPT ![t].pc = "decided", ![t].branch = branch]
    /\ UNCHANGED <<now, hsVars, ssVars, limits, thVars, rotVars, polVars,
                   win, winMu, winLog, recvCalls, ops, accs, snaps>>

\* The assignments of the branch taken.
AcceptWrite(t) ==
    /\ winCalls[t].pc = "decided"
    /\ LET seq == winCalls[t].seq
           branch == winCalls[t].branch
       IN /\ win' = CASE branch = "first" ->
                            [win EXCEPT !.highest = seq, !.seen = @ \cup {seq}]
                       [] branch = "higher" ->
                            prune([win EXCEPT !.highest = seq, !.seen = @ \cup {seq}])
                       [] branch = "record" -> [win EXCEPT !.seen = @ \cup {seq}]
                       [] OTHER -> win
          /\ winCalls' = [winCalls EXCEPT
                            ![t].pc = "written",
                            ![t].err = CASE branch = "stale" -> "ReplayStale"
                                         [] branch = "duplicate" -> "ReplayDuplicate"
                                         [] OTHER -> "ok"]
    /\ UNCHANGED <<now, hsVars, ssVars, limits, thVars, rotVars, polVars,
                   winMu, winLog, recvCalls, ops, accs, snaps>>

\* return; the deferred w.mu.Unlock().
AcceptReturn(t) ==
    /\ winCalls[t].pc = "written"
    /\ winMu' = NoThread
    /\ winLog' = Append(winLog, [t |-> t, seq |-> winCalls[t].seq,
                                  err |-> winCalls[t].err,
                                  began |-> winCalls[t].began])
    /\ winCalls' = [winCalls EXCEPT ![t] = NoAccept]
    /\ UNCHANGED <<now, hsVars, ssVars, limits, thVars, rotVars, polVars,
                   win, recvCalls, ops, accs, snaps>>

(***************************************************************************)
(* Session.Decrypt as the steps of a call made by one of several threads   *)
(* on the client's Session, while Encrypt is called on the same Session.   *)
(* Decrypt takes two locks in turn: the window's mutex inside Accept and   *)
(* the manager's mutex inside ShouldRotate.                                *)
(***************************************************************************)
MaxReceives == 2        \* Decrypt calls per run when threads make them

\* Variant: ShouldRotate counts a packet.
AfterShouldRotateCounting(m) == [m EXCEPT !.packets = @ + 1]

\* The manager after ShouldRotate: as it was.
AfterShouldRotate(m) == m

\* A thread outside Decrypt; inside, op is the place of its call in ops.
NoRecv == [pc |-> "idle", op |-> 0]

\* A Decrypt call: its thread and envelope, what it returned ("pending"
\* until it returns) and the packet count its ShouldRotate read.
DecryptOp(t, env, err) ==
    [t |-> t, env |-> env, err |-> err, pt |-> NoPlaintext, rotate |-> FALSE,
     packets |-> 0]

\* if env.Sequence == 0; s.recvWindow.Accept(env.Sequence)
DecryptBegin(t) ==
    /\ recvCalls[t].pc = "idle"
    /\ Len(ops) < MaxReceives
    /\ \E i \in 1..Len(sent[RoleServer]) :
         LET env == sent[RoleServer][i].env
         IN \E acc \in {WindowAccept(sess[RoleClient].recvWindow, env.Sequence)} :
              IF env.Sequence = 0
              THEN /\ ops' = Append(ops, DecryptOp(t, env, "SeqInvalid"))
                   /\ UNCHANGED <<sess, recvCalls>>
              ELSE /\ sess' = [sess EXCEPT ![RoleClient].recvWindow = acc.w]
                   /\ IF acc.err # "ok"
                      THEN /\ ops' = Append(ops, DecryptOp(t, env, acc.err))
                           /\ UNCHANGED recvCalls
                      ELSE /\ ops' = Append(ops, DecryptOp(t, env, "pending"))
                           /\ recvCalls' = [recvCalls EXCEPT
                                               ![t] = [pc |-> "accepted",
                                                       op |-> Len(ops) + 1]]
    /\ UNCHANGED <<now, hsVars, sent, handed, opened, last, limits, thVars, rotVars,
                   polVars, win, winMu, winCalls, winLog, accs, snaps>>

\* The nonce comparison, recvCipher.Open and s.rotation.ShouldRotate.
DecryptFinish(t) ==
    /\ recvCalls[t].pc = "accepted"
    /\ LET s == sess[RoleClient]
           j == recvCalls[t].op
           env == ops[j].env
           expectedNonce == computeNonce(s.sessionID, env.Sequence, peer(s.role))
           opn == Open(s.recvKey, expectedNonce, env.Ciphertext, metadataAAD(env.Metadata))
       IN IF NonceLength(env.Nonce) > 0 /\ env.Nonce # expectedNonce
          THEN /\ ops' = [ops EXCEPT ![j].err = "NonceMismatch"]
               /\ UNCHANGED sess
          ELSE IF opn.err # "ok"
          THEN /\ ops' = [ops EXCEPT ![j].err = "AeadFailure"]
               /\ UNCHANGED sess
          ELSE /\ ops' = [ops EXCEPT ![j].err = "ok", ![j].pt = opn.pt,
                                      ![j].rotate = ShouldRotate(s.rotation, now),
                                      ![j].packets = s.rotation.packets]
               /\ sess' = [sess EXCEPT ![RoleClient].rotation = AfterShouldRotate(@)]
    /\ recvCalls' = [recvCalls EXCEPT ![t] = NoRecv]
    /\ UNCHANGED <<now, hsVars, sent, handed, opened, last, limits, thVars, rotVars,
                   polVars, win, winMu, winCalls, winLog, accs, snaps>>

(***************************************************************************)
(* pkg/session/transcript byte by byte: what the accumulator writes to its *)
(* hasher.  Strings and byte slices are sequences of byte values.          *)
(***************************************************************************)
MaxTranscriptOps == 4   \* New, Append and Snapshot calls per run on one accumulator
MaxAppends == 2         \* successful Appends per accumulator when two are compared

DomainPrefix == <<100, 111, 109, 97, 105, 110, 58>>     \* "domain:"

\* length >> k for a length below 2^31
ShiftRight(length, k) == IF k >= 31 THEN 0 ELSE length \div (2 ^ k)

\* Variant: no length is written between label and body.
LenBufNone(length) == <<>>

\* lenBuf[i] = byte(length >> (56 - 8*i)) for i = 0..7
LenBuf(length) == [i \in 1..8 |-> ShiftRight(length, 56 - 8 * (i - 1)) % 256]

RECURSIVE Digits(_)
Digits(n) == IF n < 10 THEN <<48 + n>> ELSE Digits(n \div 10) \o <<48 + (n % 10)>>

\* json.Marshal of the values appended here: an integer gives its decimal
\* digits, a channel gives an error.
JsonMarshal(v) ==
    IF v.kind = "int" THEN [err |-> "ok", bytes |-> Digits(v.n)]
    ELSE [err |-> "UnsupportedType", bytes |-> <<>>]

\* hasher.Write: the bytes join the hasher's input.
HasherWrite(input, bytes) == input \o bytes

AccumulatorNew(domain) ==
    [hasher |-> HasherWrite(HasherWrite(<<>>, DomainPrefix), domain), logs |-> <<>>]

\* Accumulator.Append: the error returned and the accumulator afterwards.
AccumulatorAppend(a, label, v) ==
    LET m == JsonMarshal(v)
        h1 == HasherWrite(a.hasher, label)
        h2 == HasherWrite(h1, LenBuf(Len(m.bytes)))
        h3 == HasherWrite(h2, m.bytes)
    IN IF label = <<>> THEN [err |-> "LabelRequired", a |-> a]
       ELSE IF m.err # "ok" THEN [err |-> "MarshalFailure", a |-> a]
       ELSE [err |-> "ok",
             a |-> [hasher |-> h3,
                    logs |-> Append(a.logs, [Label |-> label, Data |-> m.bytes])]]

\* Variant: Sum finalizes the hasher itself and leaves it reset.
AccumulatorSnapshotConsuming(a) ==
    [digest |-> hashBytes(a.hasher), a |-> [a EXCEPT !.hasher = <<>>]]

\* Accumulator.Snapshot: the digest returned and the accumulator afterwards;
\* Sum is taken of a clone of the hasher.
AccumulatorSnapshot(a) == [digest |-> hashBytes(a.hasher), a |-> a]

Domains == {<<100>>, <<101>>}       \* "d", "e"

\* Labels: "", "a", "b", "a1" and "a" "\x00\x00\x00\x00\x00\x00\x00\x01" "1b".
AppendLabels ==
    {<<>>, <<97>>, <<98>>, <<97, 49>>, <<97, 0, 0, 0, 0, 0, 0, 0, 1, 49, 98>>}

AppendValues ==
    {[kind |-> "int", n |-> 1], [kind |-> "int", n |-> 2], [kind |-> "int", n |-> 12],
     [kind |-> "chan", n |-> 0]}

\* The call of New(domain), as the first entry of snaps.
NewCall(domain) ==
    [op |-> "New", label |-> domain, v |-> [kind |-> "chan", n |-> 0], err |-> "ok",
     appended |-> 0, digest |-> AccumulatorSnapshot(AccumulatorNew(domain)).digest]

\* Append(label, v) on accumulator i; snaps keeps the calls made on a single
\* accumulator, with the digest Snapshot gives after each.
AccAppend(i, label, v) ==
    /\ Len(snaps) < MaxTranscriptOps
    /\ Len(accs[i].logs) < MaxAppends
    /\ \E res \in {AccumulatorAppend(accs[i], label, v)} :
         /\ accs' = [accs EXCEPT ![i] = res.a]
         /\ snaps' = IF Len(accs) = 1
                     THEN Append(snaps, [op |-> "Append", label |-> label, v |-> v,
                                         err |-> res.err, appended |-> Len(res.a.logs),
                                         digest |-> AccumulatorSnapshot(res.a).digest])
                     ELSE snaps
    /\ UNCHANGED <<now, hsVars, ssVars, limits, thVars, rotVars, polVars,
                   win, winMu, winCalls, winLog, recvCalls, ops>>

\* Snapshot() on accumulator i.
AccSnapshot(i) ==
    /\ Len(snaps) < MaxTranscriptOps
    /\ \E res \in {AccumulatorSnapshot(accs[i])} :
         /\ accs' = [accs EXCEPT ![i] = res.a]
         /\ snaps' = Append(snaps, [op |-> "Snapshot", label |-> <<>>,
                                     v |-> [kind |-> "chan", n |-> 0],
                                     err |-> "ok", appended |-> Len(res.a.logs),
                                     digest |-> res.digest])
    /\ UNCHANGED <<now, hsVars, ssVars, limits, thVars, rotVars, polVars,
                   win, winMu, winCalls, winLog, recvCalls, ops>>

(***************************************************************************)
(* The policy enforcer called directly, and NewSession under a policy.     *)
(***************************************************************************)
MaxChecks == 1      \* direct Validate calls per run

PolicyCfgs ==
    {[AllowedModes |-> ms, AllowedAEAD |-> as, MinRotation |-> lo, MaxRotation |-> hi] :
        ms \in {<<>>, <<"strict", "hybrid">>},
        as \in {<<>>, <<"xchacha20poly1305">>},
        lo \in {0, 60, 700}, hi \in {0, 600}}

PolicyParams ==
    {[Mode |-> m, AEAD |-> a, RotationWindow |-> w] :
        m \in {"strict", "legacy"}, a \in {"xchacha20poly1305", "aes-gcm"},
        w \in {30, 300, 600, 3600, 7200}}

\* Enforcer.Validate called by the owner of the enforcer.
PolicyValidate ==
    /\ ~enforcer.isNil
    /\ Len(checks) < MaxChecks
    /\ \E params \in PolicyParams :
         checks' = Append(checks, [by |-> "caller", params |-> params,
                                   err |-> Validate(enforcer, params)])
    /\ UNCHANGED <<now, hsVars, ssVars, limits, libVars, thVars, rotVars, enforcer, built>>

NoBuild ==
    [called |-> FALSE, role |-> RoleClient, mode |-> "", aead |-> "", window |-> 0,
     err |-> "", validated |-> <<>>]

\* The SessionConfigs given to NewSession for the session of role r: the
\* keys of the handshake with a rotation window, the caller's rotation
\* interval left at zero or set, under the enforcer.
BuildCfgs(r) ==
    {[SessionConfig(role, 0) EXCEPT
        !.Role = role, !.Mode = m, !.AEAD = a, !.Policy = enforcer,
        !.Rotation.Interval = i,
        !.Keys = [HandshakeKeys(r) EXCEPT !.NextRotation = w]] :
        role \in {r, 7}, m \in {"", "legacy"}, a \in {"", "aes-gcm"}, w \in {600, 30},
        i \in {0, 10}}

\* NewSession called for the session of role r.
Construct(r) ==
    /\ ~built[r].called
    /\ \E cfg \in BuildCfgs(r) :
         \E res \in {NewSession(cfg)} :
            /\ sess' = [sess EXCEPT ![r] = res.s]
            /\ built' = [built EXCEPT ![r] =
                           [called |-> TRUE, role |-> cfg.Role, mode |-> cfg.Mode,
                            aead |-> cfg.AEAD,
                            window |-> cfg.Keys.NextRotation - cfg.Keys.EstablishedAt,
                            err |-> res.err, validated |-> res.validated]]
            /\ checks' = checks \o [i \in 1..Len(res.validated) |->
                                      [by |-> "NewSession",
                                       params |-> res.validated[i].params,
                                       err |-> res.validated[i].err]]
    /\ UNCHANGED <<now, hsVars, sent, handed, opened, last, limits, libVars,
                   thVars, rotVars, enforcer>>

(***************************************************************************)
(* Specifications.                                                         *)
(***************************************************************************)
HandshakeIdle ==
    /\ cCfg = HsClient
    /\ sCfg = HsServer
    /\ cInit = NoInit
    /\ pending = NoPending
    /\ accepts = <<>>
    /\ finishes = <<>>

ThreadsIdle ==
    /\ calls = [t \in Threads |-> NoEncrypt]
    /\ sendMu = NoThread
    /\ lockOrder = <<>>

ManagerIdle ==
    /\ mgr = NoSession.rotation
    /\ asked = NoAsk
    /\ made = NoManager

\* No Accept call made on the window used on its own.
WindowIdle ==
    /\ winMu = NoThread
    /\ winCalls = [t \in Threads |-> NoAccept]
    /\ winLog = <<>>

LibraryIdle ==
    /\ win = ReplayNew([Depth |-> 0])
    /\ WindowIdle
    /\ recvCalls = [t \in Threads |-> NoRecv]
    /\ ops = <<>>
    /\ accs = <<>>
    /\ snaps = <<>>

PolicyIdle ==
    /\ enforcer = NoPolicy
    /\ checks = <<>>
    /\ built = [r \in Roles |-> NoBuild]

SessionsIdle(depth) ==
    /\ sess = [r \in Roles |-> NewSession(SessionConfig(r, depth)).s]
    /\ sent = [r \in Roles |-> <<>>]
    /\ handed = [r \in Roles |-> {}]
    /\ opened = [r \in Roles |-> {}]
    /\ last = NoCall

\* The handshake between any client and server configuration.
InitHandshake ==
    /\ now = 0
    /\ cCfg \in {NewClient(m, k, sc) : m \in {"", "hybrid"}, k \in KemKeys,
                                      sc \in ClientSchedCfgs}
    /\ sCfg \in {NewServer(m, sc) : m \in Modes, sc \in ServerSchedCfgs}
    /\ cInit = NoInit
    /\ pending = NoPending
    /\ accepts = <<>>
    /\ finishes = <<>>
    /\ SessionsIdle(0)
    /\ limits = [accepts |-> MaxAccepts, finishes |-> MaxFinish, sends |-> MaxSend,
                 strip |-> FALSE, forge |-> {}]
    /\ ThreadsIdle
    /\ LibraryIdle
    /\ ManagerIdle
    /\ PolicyIdle

NextHandshake == Initiate \/ Accept \/ Finish

SpecHandshake == InitHandshake /\ [][NextHandshake]_vars

\* The record layer between the two sessions of one handshake.
InitSession ==
    /\ now = 0
    /\ HandshakeIdle
    /\ \E depth \in Depths : SessionsIdle(depth)
    /\ limits = [accepts |-> MaxAccepts, finishes |-> MaxFinish, sends |-> MaxSend,
                 strip |-> FALSE, forge |-> {}]
    /\ ThreadsIdle
    /\ LibraryIdle
    /\ ManagerIdle
    /\ PolicyIdle

NextSession == (\E r \in Roles : Encrypt(r)) \/ (\E r \in Roles : Decrypt(r))

SpecSession == InitSession /\ [][NextSession]_vars

Spec == SpecSession

\* The record layer given envelopes without their nonce as well.
InitNonce ==
    /\ now = 0
    /\ HandshakeIdle
    /\ \E depth \in Depths : SessionsIdle(depth)
    /\ limits = [accepts |-> MaxAccepts, finishes |-> MaxFinish, sends |-> MaxUse,
                 strip |-> TRUE, forge |-> {}]
    /\ ThreadsIdle
    /\ LibraryIdle
    /\ ManagerIdle
    /\ PolicyIdle

SpecNonce == InitNonce /\ [][NextSession]_vars

\* A server of any rotation interval and build: zero, negative, inside and
\* above the range of RotationSecs.
RotationIntervals == {0, -5, 600, MaxSecs + 101}

InitPayload ==
    /\ now = 0
    /\ cCfg \in {NewClient("strict", k, BaseSched) : k \in KemKeys}
    /\ sCfg \in {[NewServer("strict", [BaseSched EXCEPT !.RotationInterval = d])
                    EXCEPT !.Build = b] : d \in RotationIntervals, b \in Platforms}
    /\ cInit = NoInit
    /\ pending = NoPending
    /\ accepts = <<>>
    /\ finishes = <<>>
    /\ SessionsIdle(0)
    /\ limits = [accepts |-> MaxAccepts, finishes |-> MaxFinish, sends |-> MaxSend,
                 strip |-> FALSE, forge |-> {}]
    /\ ThreadsIdle
    /\ LibraryIdle
    /\ ManagerIdle
    /\ PolicyIdle

SpecPayload == InitPayload /\ [][NextHandshake]_vars

\* The record layer where a Session is also handed its own envelopes.
InitMetadata ==
    /\ now = 0
    /\ HandshakeIdle
    /\ \E depth \in Depths : SessionsIdle(depth)
    /\ limits = [accepts |-> MaxAccepts, finishes |-> MaxFinish, sends |-> MaxUse,
                 strip |-> FALSE, forge |-> {"remap"}]
    /\ ThreadsIdle
    /\ LibraryIdle
    /\ ManagerIdle
    /\ PolicyIdle

SpecMetadata == InitMetadata /\ [][NextSession]_vars

InitEpoch ==
    /\ now = 0
    /\ HandshakeIdle
    /\ \E depth \in Depths : SessionsIdle(depth)
    /\ limits = [accepts |-> MaxAccepts, finishes |-> MaxFinish, sends |-> MaxUse,
                 strip |-> FALSE, forge |-> {"epoch"}]
    /\ ThreadsIdle
    /\ LibraryIdle
    /\ ManagerIdle
    /\ PolicyIdle

SpecEpoch == InitEpoch /\ [][NextSession]_vars

\* The readings of the wall clock between the calls of a run: before the
\* rotation deadline of the sessions and at it.
SessionInstants == {0, 594, 595}

Tick(t) ==
    /\ t > now
    /\ now' = t
    /\ UNCHANGED <<hsVars, ssVars, limits, libVars, thVars, rotVars, polVars>>

InitHint ==
    /\ now = 0
    /\ HandshakeIdle
    /\ SessionsIdle(DefaultDepth)
    /\ limits = [accepts |-> MaxAccepts, finishes |-> MaxFinish, sends |-> MaxSend,
                 strip |-> FALSE, forge |-> {}]
    /\ ThreadsIdle
    /\ LibraryIdle
    /\ ManagerIdle
    /\ PolicyIdle

NextHint ==
    \/ \E r \in Roles : Encrypt(r)
    \/ \E r \in Roles : Decrypt(r)
    \/ \E t \in SessionInstants : Tick(t)

SpecHint == InitHint /\ [][NextHint]_vars

NextReflect ==
    \/ \E r \in Roles : Encrypt(r)
    \/ \E r \in Roles : Decrypt(r)
    \/ \E r \in Roles : Reflect(r)

SpecReflect == InitNonce /\ [][NextReflect]_vars

\* Two Finish calls on one PendingClient.
MaxFinishAgain == 2     \* Finish calls per run of SpecFinish

InitFinish ==
    /\ now = 0
    /\ cCfg \in {NewClient("strict", k, BaseSched) : k \in KemKeys}
    /\ sCfg \in {NewServer(m, BaseSched) : m \in Modes}
    /\ cInit = NoInit
    /\ pending = NoPending
    /\ accepts = <<>>
    /\ finishes = <<>>
    /\ SessionsIdle(0)
    /\ limits = [accepts |-> MaxAccepts, finishes |-> MaxFinishAgain, sends |-> MaxSend,
                 strip |-> FALSE, forge |-> {}]
    /\ ThreadsIdle
    /\ LibraryIdle
    /\ ManagerIdle
    /\ PolicyIdle

SpecFinish == InitFinish /\ [][NextHandshake]_vars

\* Threads calling Encrypt on the client's Session.
PacketLimits == {1, 2, 3}

InitThreads ==
    /\ now = 0
    /\ HandshakeIdle
    /\ SessionsIdle(0)
    /\ limits = [accepts |-> MaxAccepts, finishes |-> MaxFinish, sends |-> MaxCalls,
                 strip |-> FALSE, forge |-> {}]
    /\ ThreadsIdle
    /\ LibraryIdle
    /\ ManagerIdle
    /\ PolicyIdle

NextThreads ==
    \/ \E t \in Threads : EncryptEnter(t)
    \/ \E t \in Threads : EncryptLock(t)
    \/ \E t \in Threads : EncryptIncrement(t)
    \/ \E t \in Threads : EncryptSeal(t)
    \/ \E t \in Threads : EncryptReturn(t)

SpecThreads == InitThreads /\ [][NextThreads]_vars

\* The record layer with a packet threshold of 1, 2 or 3.
InitRotation ==
    /\ now = 0
    /\ HandshakeIdle
    /\ \E n \in PacketLimits :
         sess = [r \in Roles |->
                   NewSession([SessionConfig(r, 0) EXCEPT !.Rotation.MaxPackets = n]).s]
    /\ sent = [r \in Roles |-> <<>>]
    /\ handed = [r \in Roles |-> {}]
    /\ opened = [r \in Roles |-> {}]
    /\ last = NoCall
    /\ limits = [accepts |-> MaxAccepts, finishes |-> MaxFinish, sends |-> MaxCalls,
                 strip |-> FALSE, forge |-> {}]
    /\ ThreadsIdle
    /\ LibraryIdle
    /\ ManagerIdle
    /\ PolicyIdle

\* The client's Session sends and receives; the server's only sends.
NextRotation ==
    \/ Encrypt(RoleClient)
    \/ Encrypt(RoleServer)
    \/ Decrypt(RoleClient)

SpecRotation == InitRotation /\ [][NextRotation]_vars

\* A rotation.Manager of any configuration.
\* A window of some depth, and Accept calls made one after the other.
InitWindow ==
    /\ now = 0
    /\ HandshakeIdle
    /\ SessionsIdle(0)
    /\ limits = [accepts |-> MaxAccepts, finishes |-> MaxFinish, sends |-> MaxSend,
                 strip |-> FALSE, forge |-> {}]
    /\ ThreadsIdle
    /\ win \in {ReplayNew([Depth |-> d]) : d \in WindowDepths}
    /\ WindowIdle
    /\ recvCalls = [t \in Threads |-> NoRecv]
    /\ ops = <<>>
    /\ accs = <<>>
    /\ snaps = <<>>
    /\ ManagerIdle
    /\ PolicyIdle

NextWindow == \E seq \in WindowSeqs : WindowCall(seq)

SpecWindow == InitWindow /\ [][NextWindow]_vars

\* A window of some depth, and Accept calls made by several threads.
InitWindowThreads ==
    /\ now = 0
    /\ HandshakeIdle
    /\ SessionsIdle(0)
    /\ limits = [accepts |-> MaxOverlapping, finishes |-> MaxFinish, sends |-> MaxSend,
                 strip |-> FALSE, forge |-> {}]
    /\ ThreadsIdle
    /\ win \in {ReplayNew([Depth |-> d]) : d \in WindowDepths}
    /\ WindowIdle
    /\ recvCalls = [t \in Threads |-> NoRecv]
    /\ ops = <<>>
    /\ accs = <<>>
    /\ snaps = <<>>
    /\ ManagerIdle
    /\ PolicyIdle

NextWindowThreads ==
    \E t \in Threads :
        \/ \E seq \in WindowSeqs : AcceptEnter(t, seq)
        \/ AcceptLock(t)
        \/ AcceptDecide(t)
        \/ AcceptWrite(t)
        \/ AcceptReturn(t)

SpecWindowThreads == InitWindowThreads /\ [][NextWindowThreads]_vars

\* Sessions with a small packet threshold and replay depth; the server's
\* Session sends, the client's sends while its threads receive.
InitDuplex ==
    /\ now = 0
    /\ HandshakeIdle
    /\ \E n \in {1, 2}, depth \in {1, 2} :
         sess = [r \in Roles |->
                   NewSession([SessionConfig(r, depth) EXCEPT !.Rotation.MaxPackets = n]).s]
    /\ sent = [r \in Roles |-> <<>>]
    /\ handed = [r \in Roles |-> {}]
    /\ opened = [r \in Roles |-> {}]
    /\ last = NoCall
    /\ limits = [accepts |-> MaxAccepts, finishes |-> MaxFinish, sends |-> MaxCalls,
                 strip |-> FALSE, forge |-> {}]
    /\ ThreadsIdle
    /\ LibraryIdle
    /\ ManagerIdle
    /\ PolicyIdle

NextDuplex ==
    \/ Encrypt(RoleClient)
    \/ Encrypt(RoleServer)
    \/ \E t \in Threads : DecryptBegin(t)
    \/ \E t \in Threads : DecryptFinish(t)

SpecDuplex == InitDuplex /\ [][NextDuplex]_vars

\* One accumulator, appended to and snapshotted.
InitTranscript ==
    /\ now = 0
    /\ HandshakeIdle
    /\ SessionsIdle(0)
    /\ limits = [accepts |-> MaxAccepts, finishes |-> MaxFinish, sends |-> MaxSend,
                 strip |-> FALSE, forge |-> {}]
    /\ ThreadsIdle
    /\ win = ReplayNew([Depth |-> 0])
    /\ WindowIdle
    /\ recvCalls = [t \in Threads |-> NoRecv]
    /\ ops = <<>>
    /\ \E domain \in Domains :
         /\ accs = <<AccumulatorNew(domain)>>
         /\ snaps = <<NewCall(domain)>>
    /\ ManagerIdle
    /\ PolicyIdle

NextTranscript ==
    \/ \E label \in AppendLabels, v \in AppendValues : AccAppend(1, label, v)
    \/ AccSnapshot(1)

SpecTranscript == InitTranscript /\ [][NextTranscript]_vars

\* Two accumulators made with the same domain, each appended to.
InitFraming ==
    /\ now = 0
    /\ HandshakeIdle
    /\ SessionsIdle(0)
    /\ limits = [accepts |-> MaxAccepts, finishes |-> MaxFinish, sends |-> MaxSend,
                 strip |-> FALSE, forge |-> {}]
    /\ ThreadsIdle
    /\ win = ReplayNew([Depth |-> 0])
    /\ WindowIdle
    /\ recvCalls = [t \in Threads |-> NoRecv]
    /\ ops = <<>>
    /\ \E domain \in Domains :
         /\ accs = <<AccumulatorNew(domain), AccumulatorNew(domain)>>
         /\ snaps = <<NewCall(domain)>>
    /\ ManagerIdle
    /\ PolicyIdle

NextFraming ==
    \E i \in {1, 2}, label \in AppendLabels, v \in AppendValues : AccAppend(i, label, v)

SpecFraming == InitFraming /\ [][NextFraming]_vars

RotationCfgs ==
    {[Interval |-> i, MaxPackets |-> n, Skew |-> k] :
        i \in {0, 3, 6}, n \in {0, 2}, k \in {0, 2, 6}}

InitManager ==
    /\ now = 0
    /\ HandshakeIdle
    /\ SessionsIdle(0)
    /\ limits = [accepts |-> MaxAccepts, finishes |-> MaxFinish, sends |-> MaxSend,
                 strip |-> FALSE, forge |-> {}]
    /\ ThreadsIdle
    /\ LibraryIdle
    /\ \E cfg \in RotationCfgs, start \in {0, 4}, epoch \in {1, MaxEpoch} :
         /\ mgr = RotationNew(cfg, start, epoch)
         /\ made = [cfg |-> cfg, start |-> start, epoch |-> epoch, resets |-> 0]
    /\ asked = NoAsk
    /\ PolicyIdle

NextManager ==
    \/ \E t \in Clock : ManagerRecord(t)
    \/ \E t \in Clock : ManagerShouldRotate(t)
    \/ ManagerNextEpoch
    \/ \E t \in Clock : ManagerReset(t)

SpecManager == InitManager /\ [][NextManager]_vars

\* The enforcer of any configuration, called directly.
InitValidate ==
    /\ now = 0
    /\ HandshakeIdle
    /\ SessionsIdle(0)
    /\ limits = [accepts |-> MaxAccepts, finishes |-> MaxFinish, sends |-> MaxSend,
                 strip |-> FALSE, forge |-> {}]
    /\ ThreadsIdle
    /\ LibraryIdle
    /\ ManagerIdle
    /\ enforcer \in {PolicyNew(cfg) : cfg \in PolicyCfgs}
    /\ checks = <<>>
    /\ built = [r \in Roles |-> NoBuild]

SpecValidate == InitValidate /\ [][PolicyValidate]_vars

\* Sessions constructed under a policy, then used.
StrictPolicy ==
    PolicyNew([AllowedModes |-> <<"strict", "hybrid">>,
               AllowedAEAD |-> <<"xchacha20poly1305">>,
               MinRotation |-> 60, MaxRotation |-> 600])
OpenPolicy ==
    PolicyNew([AllowedModes |-> <<>>, AllowedAEAD |-> <<>>,
               MinRotation |-> 0, MaxRotation |-> 0])

InitConstruct ==
    /\ now = 0
    /\ HandshakeIdle
    /\ sess = [r \in Roles |-> NoSession]
    /\ sent = [r \in Roles |-> <<>>]
    /\ handed = [r \in Roles |-> {}]
    /\ opened = [r \in Roles |-> {}]
    /\ last = NoCall
    /\ limits = [accepts |-> MaxAccepts, finishes |-> MaxFinish, sends |-> MaxUse,
                 strip |-> FALSE, forge |-> {}]
    /\ ThreadsIdle
    /\ LibraryIdle
    /\ ManagerIdle
    /\ enforcer \in {StrictPolicy, OpenPolicy}
    /\ checks = <<>>
    /\ built = [r \in Roles |-> NoBuild]

NextConstruct ==
    \/ \E r \in Roles : Construct(r)
    \/ \E r \in Roles : Encrypt(r)
    \/ \E r \in Roles : Decrypt(r)

SpecConstruct == InitConstruct /\ [][NextConstruct]_vars

(***************************************************************************)
(* Handshake properties, over the histories of Accept and Finish calls.    *)
(***************************************************************************)
AcceptCalls == {accepts[i] : i \in 1..Len(accepts)}
FinishCalls == {finishes[i] : i \in 1..Len(finishes)}

\* A handshake that succeeded: Accept returned a response and Finish
\* returned keys for exactly that response.
Succeeded(a, f) == a.err = "ok" /\ f.err = "ok" /\ f.resp = a.resp

\* Two HKDF reads of the same stream from the same byte.
SameStream(k1, k2) == [k1 EXCEPT !.len = 0] = [k2 EXCEPT !.len = 0]

\* C1 as stated: after a successful handshake the keys of the initiator and
\* of the responder are equal in SessionID, ClientToServer, ServerToClient
\* and ExporterSecret, whatever the two configurations.
C1_AllFourEqual ==
    \A a \in AcceptCalls : \A f \in FinishCalls :
        Succeeded(a, f) =>
            /\ f.keys.SessionID = a.keys.SessionID
            /\ f.keys.ClientToServer = a.keys.ClientToServer
            /\ f.keys.ServerToClient = a.keys.ServerToClient
            /\ f.keys.ExporterSecret = a.keys.ExporterSecret

\* C1 amended: after a successful handshake the two sides' keys are equal in
\* SessionID, ClientToServer and ServerToClient; their ExporterSecrets are
\* reads of the same HKDF stream from the same byte, equal when the two
\* scheduler configurations give the same effective ExporterSize.
C1_KeysAgree ==
    \A a \in AcceptCalls : \A f \in FinishCalls :
        Succeeded(a, f) =>
            /\ f.keys.SessionID = a.keys.SessionID
            /\ f.keys.ClientToServer = a.keys.ClientToServer
            /\ f.keys.ServerToClient = a.keys.ServerToClient
            /\ SameStream(f.keys.ExporterSecret, a.keys.ExporterSecret)
            /\ (KeySize(cCfg.Scheduler.ExporterSize) = KeySize(sCfg.Scheduler.ExporterSize)
                  => f.keys.ExporterSecret = a.keys.ExporterSecret)

\* A handshake succeeded between differently written scheduler
\* configurations and the exporter secrets agree.
C1_Witness ==
    \E a \in AcceptCalls : \E f \in FinishCalls :
        /\ Succeeded(a, f)
        /\ cCfg.Scheduler # sCfg.Scheduler
        /\ f.keys.ExporterSecret = a.keys.ExporterSecret
        /\ f.keys.ClientToServer.len = DefaultKeySize

\* Equality of two ClientInits in every field but the timestamp.
SameInitFields(i1, i2) ==
    /\ i1.version = i2.version
    /\ i1.mode = i2.mode
    /\ i1.nonce = i2.nonce
    /\ i1.caps = i2.caps
    /\ i1.ct = i2.ct

\* C2 as stated: Finish returns keys only if some Accept call processed a
\* ClientInit equal to the client's in version, mode, timestamp, nonce,
\* capabilities and ciphertext, produced exactly the payload Finish received
\* and decapsulated the client's shared secret.
C2_AcceptMatches ==
    \A f \in FinishCalls :
        f.err = "ok" =>
            \E a \in AcceptCalls :
                /\ a.err = "ok"
                /\ SameInitFields(a.init, cInit)
                /\ a.init.ts = cInit.ts
                /\ a.resp.Payload = f.resp.Payload
                /\ a.keys.SharedSecret = pending.sharedSecret

\* C2 amended: Finish returns keys only if some Accept call processed a
\* ClientInit equal to the client's in version, mode, timestamp instant,
\* nonce, capabilities and ciphertext and produced exactly the payload Finish
\* received; that call decapsulated the client's shared secret provided the
\* attacker does not hold the private key of the client's ServerPublicKey.
C2_AcceptMatchesInstant ==
    \A f \in FinishCalls :
        f.err = "ok" =>
            \E a \in AcceptCalls :
                /\ a.err = "ok"
                /\ SameInitFields(a.init, cInit)
                /\ UTC(a.init.ts) = UTC(cInit.ts)
                /\ a.resp.Payload = f.resp.Payload
                /\ (cCfg.ServerPublicKey # "kemA"
                      => a.keys.SharedSecret = pending.sharedSecret)

\* Finish returned keys to a client that encapsulated to the server's key,
\* after an Accept call that decapsulated the same secret.
C2_Witness ==
    \E f \in FinishCalls : \E a \in AcceptCalls :
        /\ f.err = "ok"
        /\ a.err = "ok"
        /\ cCfg.ServerPublicKey = "kemS"
        /\ a.resp.Payload = f.resp.Payload
        /\ a.keys.SharedSecret = pending.sharedSecret
        /\ f.keys # ZeroKeys

\* C8: a response whose Signature or TranscriptHash differs from the value
\* the responder returned with its payload makes Finish return an error and
\* no keys: Finish succeeds only on the signature and the digest that an
\* Accept call returned together with the payload received.
C8_SignatureAndHashBound ==
    \A f \in FinishCalls :
        \/ f.err # "ok" /\ f.keys = ZeroKeys
        \/ \E a \in AcceptCalls :
              /\ a.err = "ok"
              /\ a.resp.Payload = f.resp.Payload
              /\ a.resp.Signature = f.resp.Signature
              /\ a.resp.TranscriptHash = f.resp.TranscriptHash

\* Finish refused a response whose signature alone was replaced by one the
\* attacker made over the same digest.
C8_Witness ==
    \E f \in FinishCalls :
        /\ f.base # ZeroResponse
        /\ f.resp = [f.base EXCEPT !.Signature = Sign("sigA", f.base.TranscriptHash)]
        /\ f.err = "SignatureInvalid"
        /\ f.keys = ZeroKeys

\* The payload was changed in a field other than Mode; digest, signature
\* and confirmation are the responder's.
PayloadOnlyChanged(f) ==
    /\ f.base # ZeroResponse
    /\ f.resp.Payload # f.base.Payload
    /\ f.resp.Payload.mode = f.base.Payload.mode
    /\ f.resp.TranscriptHash = f.base.TranscriptHash
    /\ f.resp.Signature = f.base.Signature
    /\ f.resp.Confirmation = f.base.Confirmation

\* C9 as stated: a payload that differs from the responder's in a field
\* other than Mode, with digest, signature and confirmation as produced,
\* makes Finish fail with the transcript hash mismatch error.
C9_PayloadChangeIsMismatch ==
    \A f \in FinishCalls :
        PayloadOnlyChanged(f) => f.err = "TranscriptMismatch"

\* C9 amended: such a payload makes Finish fail with the mode mismatch
\* error when its Mode is not the client's configured mode, otherwise with
\* the error of the transcript append when its timestamp cannot be
\* marshalled (year 10000 or later), otherwise with the transcript hash
\* mismatch error; never with a signature or confirmation error.
C9_PayloadChangeByMode ==
    \A f \in FinishCalls :
        PayloadOnlyChanged(f) =>
            f.err = (IF f.resp.Payload.mode # cCfg.Mode THEN "ModeMismatch"
                     ELSE IF f.resp.Payload.ts.inst >= FirstUnmarshalable
                     THEN "TranscriptFailure"
                     ELSE "TranscriptMismatch")

\* Finish reported a transcript mismatch for a response whose payload
\* rotation_secs alone was changed.
C9_Witness ==
    \E f \in FinishCalls :
        /\ PayloadOnlyChanged(f)
        /\ f.resp.Payload = [f.base.Payload EXCEPT !.rot = @ + 1]
        /\ f.err = "TranscriptMismatch"

\* The ClientInit Accept consumed differs from the one Initiate emitted in
\* its KEM ciphertext only.
CiphertextOnlyChanged(a) ==
    /\ cInit # NoInit
    /\ a.init.ct # cInit.ct
    /\ [a.init EXCEPT !.ct = cInit.ct] = cInit

\* C10: when Accept completes on a ClientInit that differs from the emitted
\* one only in its KEM ciphertext, Finish on the returned response fails
\* with the transcript hash mismatch error.
C10_CiphertextBound ==
    \A a \in AcceptCalls : \A f \in FinishCalls :
        (CiphertextOnlyChanged(a) /\ a.err = "ok" /\ f.resp = a.resp)
        => (f.err = "TranscriptMismatch" /\ f.keys = ZeroKeys)

\* Accept completed on a ciphertext with flipped bits (implicit rejection)
\* and Finish refused its response with a transcript mismatch.
C10_Witness ==
    \E a \in AcceptCalls : \E f \in FinishCalls :
        /\ CiphertextOnlyChanged(a)
        /\ a.init.ct.flip
        /\ a.err = "ok"
        /\ f.resp = a.resp
        /\ f.err = "TranscriptMismatch"

(***************************************************************************)
(* Record layer properties, over the most recent Decrypt call (last) and   *)
(* the histories of envelopes sent, handed over and opened.                *)
(***************************************************************************)
\* The record of the Encrypt call of role r that returned env.
SentRecord(r, env) ==
    CHOOSE x \in {sent[r][i] : i \in 1..Len(sent[r])} : x.env = env

Genuine(r) == {sent[r][i].env : i \in 1..Len(sent[r])}

\* seq is within the replay depth of the window's highest sequence.
WithinDepth(w, seq) == seq > w.highest \/ w.highest - seq < w.depth

\* C3 as stated: an envelope made by Encrypt and handed unmodified and for
\* the first time to the peer's Decrypt, while its sequence is within the
\* replay depth of the highest sequence received, yields the plaintext that
\* was given to Encrypt, in either direction.
C3_RoundTrip ==
    (/\ last.kind = "none"
     /\ last.first
     /\ WithinDepth(last.before, last.env.Sequence))
    => (/\ last.err = "ok"
        /\ last.pt = SentRecord(peer(last.to), last.env).pt)

\* The kinds of single-bit change the attacker makes to an envelope.
BitFlipKinds == {"ciphertext", "nonce", "sequence", "metadata"}

\* C4: an envelope with one bit flipped in its Ciphertext, Nonce, a
\* Metadata key or value, or Sequence makes Decrypt return an error and no
\* plaintext.
C4_BitFlipRejected ==
    last.kind \in BitFlipKinds => (last.err # "ok" /\ last.pt = NoPlaintext)

\* Decrypt refused an envelope in which a flipped bit turned one metadata
\* key into another key of the map.
C4_Witness ==
    /\ last.kind = "metadata"
    /\ Cardinality(DOMAIN last.env.Metadata) < Cardinality(DOMAIN last.orig.Metadata)
    /\ last.err = "AeadFailure"
    /\ last.pt = NoPlaintext

\* C5 as stated: an envelope Decrypt has already accepted is rejected with
\* replay.ErrDuplicate each time it is delivered again.
C5_ReplayIsDuplicate ==
    last.again => last.err = "ReplayDuplicate"

\* C5 amended: an envelope Decrypt has already accepted is rejected each
\* time it is delivered again: with replay.ErrDuplicate while its sequence
\* is within the replay depth of the highest sequence received, with
\* replay.ErrStale once it is not.
C5_ReplayRejected ==
    last.again =>
        /\ last.pt = NoPlaintext
        /\ last.err = (IF last.before.highest - last.env.Sequence < last.before.depth
                       THEN "ReplayDuplicate" ELSE "ReplayStale")

\* An accepted envelope was delivered again within the window and rejected
\* as a duplicate, after a later envelope had been accepted in between.
C5_Witness ==
    /\ last.again
    /\ last.before.highest > last.env.Sequence
    /\ last.err = "ReplayDuplicate"

\* C6 as stated: an envelope whose sequence is below the highest sequence
\* received minus the replay depth is rejected with replay.ErrStale.
C6_BelowWindowIsStale ==
    (last.kind # "" /\ last.env.Sequence < last.before.highest - last.before.depth)
    => last.err = "ReplayStale"

\* C6 amended: an envelope whose sequence is at least 1 and below the
\* highest sequence received minus the replay depth is rejected with
\* replay.ErrStale; sequence 0 is rejected as an invalid sequence.
C6_BelowWindowRejected ==
    (last.kind # "" /\ last.env.Sequence < last.before.highest - last.before.depth)
    => last.err = (IF last.env.Sequence = 0 THEN "SeqInvalid" ELSE "ReplayStale")

\* A genuine envelope with a sequence below the window was rejected as stale.
C6_Witness ==
    /\ last.kind = "none"
    /\ last.env.Sequence >= 1
    /\ last.env.Sequence < last.before.highest - last.before.depth
    /\ last.err = "ReplayStale"

\* The highest sequence among the genuine envelopes delivered to role r.
HighestGenuine(r) ==
    LET seqs == {e.Sequence : e \in handed[r]}
    IN IF seqs = {} THEN 0 ELSE CHOOSE q \in seqs : \A x \in seqs : x <= q

FrameErrors == {"ReplayDuplicate", "ReplayStale", "NonceMismatch", "AeadFailure"}

\* C7 as stated: after Decrypt failed with a replay, nonce or AEAD error,
\* every genuine envelope not yet delivered whose sequence is within the
\* replay depth of the highest genuine sequence delivered still decrypts
\* when it is delivered.
C7_FailureLeavesSessionUsable ==
    last.err \in FrameErrors =>
        \A e \in Genuine(peer(last.to)) \ handed[last.to] :
            (\/ e.Sequence > HighestGenuine(last.to)
             \/ HighestGenuine(last.to) - e.Sequence < sess[last.to].recvWindow.depth)
            => SessionDecrypt(sess[last.to], e, now).err = "ok"


(***************************************************************************)
(* Sequence assignment under concurrent senders.                           *)
(***************************************************************************)
EncryptCalls == {<<t, i>> : t \in Threads, i \in 1..MaxCalls}
ReturnedEncrypts == {c \in EncryptCalls : c[2] <= Len(calls[c[1]].log)}
SentSequences == {sent[RoleClient][i].env.Sequence : i \in 1..Len(sent[RoleClient])}

\* C11: once n Encrypt calls on one Session have returned, their envelopes
\* carry exactly the sequences 1..n, each once; every call got the sequence
\* equal to its position in the order in which the send lock was acquired;
\* a thread that is the only sender sees 1, 2, 3 in call order.
C11_SequencesInLockOrder ==
    LET n == Len(sent[RoleClient])
    IN /\ Cardinality(ReturnedEncrypts) = n
       /\ SentSequences = 1..n
       /\ \A i, j \in 1..n :
            sent[RoleClient][i].env.Sequence = sent[RoleClient][j].env.Sequence => i = j
       /\ \A c \in ReturnedEncrypts :
            /\ calls[c[1]].log[c[2]].seq = calls[c[1]].log[c[2]].ticket
            /\ lockOrder[calls[c[1]].log[c[2]].ticket] = c[1]
       /\ \A t \in Threads :
            (\A u \in Threads \ {t} : calls[u] = NoEncrypt)
                => \A i \in 1..Len(calls[t].log) : calls[t].log[i].seq = i

\* Two threads have both returned from Encrypt, three envelopes in all.
C11_Witness ==
    /\ Len(sent[RoleClient]) = 3
    /\ \A t \in Threads : Len(calls[t].log) >= 1
    /\ \E t \in Threads : Len(calls[t].log) = 2 /\ calls[t].log[2].seq = 3
                          /\ calls[t].log[1].seq = 1


(***************************************************************************)
(* Nonces of the envelopes a Session emits.                                *)
(***************************************************************************)
\* C12: no two envelopes emitted by one Session carry the same nonce and
\* none has sequence 0; the nonce of an envelope is determined by the
\* session id, the sequence and the sender's role alone.
C12_NoncesUnique ==
    \A r \in Roles :
        /\ \A i, j \in 1..Len(sent[r]) :
             sent[r][i].env.Nonce = sent[r][j].env.Nonce => i = j
        /\ \A i \in 1..Len(sent[r]) :
             /\ sent[r][i].env.Sequence # 0
             /\ sent[r][i].env.Nonce =
                  computeNonce(sess[r].sessionID, sent[r][i].env.Sequence, r)

\* One Session has emitted two envelopes with the same plaintext and
\* metadata.
C12_Witness ==
    \E r \in Roles :
        /\ Len(sent[r]) = 2
        /\ sent[r][1].pt = sent[r][2].pt
        /\ sent[r][1].meta = sent[r][2].meta
        /\ sent[r][1].env.Nonce # sent[r][2].env.Nonce


(***************************************************************************)
(* Finish called again on the same PendingClient.                          *)
(***************************************************************************)
FinishFailures ==
    {"ModeMismatch", "TranscriptMismatch", "SignatureInvalid", "ConfirmationMismatch"}

\* C13: Finish is one-shot: after a Finish call returned keys, every later
\* Finish on the same PendingClient, with any response, the same one
\* included, returns an error and no keys.
C13_FinishOneShot ==
    \A i, j \in 1..Len(finishes) :
        (i < j /\ finishes[i].err = "ok")
            => (finishes[j].err # "ok" /\ finishes[j].keys = ZeroKeys)

\* A Finish returned keys and the same response was given to Finish again.
C13_Witness ==
    /\ Len(finishes) = 2
    /\ finishes[1].err = "ok"
    /\ finishes[1].keys # ZeroKeys
    /\ finishes[2].resp = finishes[1].resp
    /\ finishes[2].err # "ok"

\* C14: after a Finish that failed with a mode mismatch, a transcript
\* mismatch, an invalid signature or a confirmation mismatch, every later
\* Finish on the same PendingClient fails, the genuine response included.
C14_FailureIsTerminal ==
    \A i, j \in 1..Len(finishes) :
        (i < j /\ finishes[i].err \in FinishFailures) => finishes[j].err # "ok"

\* C15: once a Finish has failed, the PendingClient no longer holds the KEM
\* shared secret.
C15_SecretZeroized ==
    (\E i \in 1..Len(finishes) : finishes[i].err \in FinishFailures)
        => pending.sharedSecret = ""


(***************************************************************************)
(* The failures of Server.Accept.                                          *)
(***************************************************************************)
\* C16, as stated: Accept fails with the mode-mismatch error exactly when
\* the mode of the ClientInit differs from the server's mode, and every
\* failed Accept returns the empty ServerResponse and the empty Keys.
C16_ModeMismatchExactly ==
    \A i \in 1..Len(accepts) :
        /\ (accepts[i].err = "ModeMismatch") <=> (accepts[i].init.mode # sCfg.Mode)
        /\ accepts[i].err # "ok"
             => (accepts[i].resp = ZeroResponse /\ accepts[i].keys = ZeroKeys)

\* C16, amended: Accept fails with the mode-mismatch error exactly when the
\* mode of the ClientInit differs from the server's mode and the ClientInit
\* could be appended to the transcript (its timestamp is before year
\* 10000); every failed Accept returns the empty ServerResponse and the
\* empty Keys.
C16_ModeMismatchAfterAppend ==
    \A i \in 1..Len(accepts) :
        /\ (accepts[i].err = "ModeMismatch")
             <=> (accepts[i].init.mode # sCfg.Mode
                    /\ accepts[i].init.ts.inst < FirstUnmarshalable)
        /\ accepts[i].err # "ok"
             => (accepts[i].resp = ZeroResponse /\ accepts[i].keys = ZeroKeys)

\* Accept was given a ClientInit of another mode with a timestamp it cannot
\* append, and failed on the append.
C16_Witness ==
    \E i \in 1..Len(accepts) :
        /\ accepts[i].init.mode # sCfg.Mode
        /\ accepts[i].init.ts.inst >= FirstUnmarshalable
        /\ accepts[i].err = "TranscriptFailure"
        /\ accepts[i].resp = ZeroResponse
        /\ accepts[i].keys = ZeroKeys


(***************************************************************************)
(* Rotation hints.                                                         *)
(***************************************************************************)
\* The instant from which a manager signals rotation by time.
Deadline(m) ==
    m.start + m.cfg.Interval - (IF m.cfg.Skew >= m.cfg.Interval THEN 0 ELSE m.cfg.Skew)

\* C17: with MaxPackets = N > 0 and the clock before the time deadline, the
\* rotate hint of the k-th Encrypt of a Session is true exactly when k >= N;
\* the Decrypt calls of the Session are not counted.
C17_HintAtPacketLimit ==
    \A r \in Roles :
        LET m == sess[r].rotation
            N == m.cfg.MaxPackets
        IN (N > 0 /\ now < Deadline(m))
             => /\ \A k \in 1..Len(sent[r]) : sent[r][k].rotate = (k >= N)
                /\ m.packets = Len(sent[r])

\* The client's Session with N = 2 has opened an envelope and sent two:
\* the hints were false, true.
C17_Witness ==
    /\ sess[RoleClient].rotation.cfg.MaxPackets = 2
    /\ opened[RoleClient] # {}
    /\ Len(sent[RoleClient]) = 2
    /\ ~sent[RoleClient][1].rotate
    /\ sent[RoleClient][2].rotate

\* C18, as stated: for every configuration of Interval, Skew and MaxPackets,
\* ShouldRotate(now) is true for every now at or after start + Interval -
\* Skew, and is true once packets >= MaxPackets with MaxPackets > 0.
C18_RotateFromSkewedDeadline ==
    asked.op = "ShouldRotate"
        => /\ asked.t >= mgr.start + mgr.cfg.Interval - mgr.cfg.Skew => asked.hint
           /\ (mgr.cfg.MaxPackets > 0 /\ mgr.packets >= mgr.cfg.MaxPackets) => asked.hint

\* C18, amended: ShouldRotate(now) and the hint of Record(now) are true
\* exactly when packets >= MaxPackets with MaxPackets > 0, or now is at or
\* after start + Interval - Skew, where the skew counts as 0 when Skew >=
\* Interval.
C18_RotateFromDeadline ==
    asked.op \in {"ShouldRotate", "Record"}
        => asked.hint = (\/ mgr.cfg.MaxPackets > 0 /\ mgr.packets >= mgr.cfg.MaxPackets
                         \/ asked.t >= Deadline(mgr))

\* A manager whose skew is not below its interval was asked between
\* start + Interval - Skew and start + Interval, and answered false.
C18_Witness ==
    /\ asked.op = "ShouldRotate"
    /\ mgr.cfg.Skew >= mgr.cfg.Interval
    /\ asked.t >= mgr.start + mgr.cfg.Interval - mgr.cfg.Skew
    /\ asked.t < mgr.start + mgr.cfg.Interval
    /\ mgr.epoch = 2
    /\ ~asked.hint


(***************************************************************************)
(* The policy enforcer.                                                    *)
(***************************************************************************)
DirectChecks == {i \in 1..Len(checks) : checks[i].by = "caller"}

BelowMin(c) == c.params.RotationWindow < enforcer.cfg.MinRotation
AboveMax(c) == c.params.RotationWindow > enforcer.cfg.MaxRotation

\* The mode, the AEAD of a check is on the allow-list.
ModeListed(c) == c.params.Mode \in enforcer.modes
AeadListed(c) == c.params.AEAD \in enforcer.aeads

\* The mode, the AEAD of a check is permitted: on the allow-list, or the
\* allow-list is empty.
ModePermitted(c) == enforcer.modes = {} \/ ModeListed(c)
AeadPermitted(c) == enforcer.aeads = {} \/ AeadListed(c)

\* C19, as stated: Validate returns the first violation in the order
\* unknown mode, unknown AEAD, window below MinRotation, window above
\* MaxRotation, and returns nil exactly when the mode is an allowed mode,
\* the AEAD is an allowed AEAD and MinRotation <= RotationWindow <=
\* MaxRotation.
C19_FirstViolationListed ==
    \A i \in DirectChecks :
        LET c == checks[i]
        IN /\ (c.err = "PolicyMode") <=> ~ModeListed(c)
           /\ (c.err = "PolicyAead") <=> (ModeListed(c) /\ ~AeadListed(c))
           /\ (c.err = "PolicyRotationBelow")
                <=> (ModeListed(c) /\ AeadListed(c) /\ BelowMin(c))
           /\ (c.err = "PolicyRotationAbove")
                <=> (ModeListed(c) /\ AeadListed(c) /\ ~BelowMin(c) /\ AboveMax(c))
           /\ (c.err = "ok")
                <=> (ModeListed(c) /\ AeadListed(c) /\ ~BelowMin(c) /\ ~AboveMax(c))

\* C19, amended: the same order and the same condition for nil, where a
\* mode or an AEAD is permitted when it is on the allow-list or the
\* allow-list is empty, and MinRotation and MaxRotation are the values
\* after New's defaults.
C19_FirstViolationPermitted ==
    \A i \in DirectChecks :
        LET c == checks[i]
        IN /\ (c.err = "PolicyMode") <=> ~ModePermitted(c)
           /\ (c.err = "PolicyAead") <=> (ModePermitted(c) /\ ~AeadPermitted(c))
           /\ (c.err = "PolicyRotationBelow")
                <=> (ModePermitted(c) /\ AeadPermitted(c) /\ BelowMin(c))
           /\ (c.err = "PolicyRotationAbove")
                <=> (ModePermitted(c) /\ AeadPermitted(c) /\ ~BelowMin(c) /\ AboveMax(c))
           /\ (c.err = "ok")
                <=> (ModePermitted(c) /\ AeadPermitted(c) /\ ~BelowMin(c) /\ ~AboveMax(c))

\* An enforcer with no allowed modes and one allowed AEAD accepted a mode.
C19_Witness ==
    \E i \in DirectChecks :
        /\ enforcer.modes = {}
        /\ enforcer.aeads # {}
        /\ checks[i].params.Mode = "legacy"
        /\ checks[i].err = "ok"


(***************************************************************************)
(* NewSession under a policy.                                              *)
(***************************************************************************)
Builds == {r \in Roles : built[r].called}

\* The parameters NewSession hands to Validate for a build: the mode and the
\* AEAD after their defaults, and the rotation window of the keys.
ExpectedParams(b) ==
    [Mode |-> IF b.mode = "" THEN "strict" ELSE b.mode,
     AEAD |-> IF b.aead = "" THEN "xchacha20poly1305" ELSE b.aead,
     RotationWindow |-> b.window]

NewSessionChecks == {i \in 1..Len(checks) : checks[i].by = "NewSession"}

\* What C20 says of one NewSession call b that made (or not) sess[r].
ValidatedOnce(r, b) ==
    LET verdict == Validate(enforcer, ExpectedParams(b))
    IN /\ b.validated = <<[params |-> ExpectedParams(b), err |-> verdict]>>
       /\ b.err = "ok" => verdict = "ok"
       /\ verdict # "ok" => (b.err = verdict /\ sess[r] = NoSession)

\* C20, as stated: NewSession calls Validate once on (Mode, AEAD,
\* Keys.NextRotation - Keys.EstablishedAt) and returns a Session only if the
\* policy accepts; when the policy rejects it returns the policy error and
\* no Session; no later Encrypt or Decrypt calls the policy.
C20_ValidatedExactlyOnce ==
    /\ \A r \in Builds : ValidatedOnce(r, built[r])
    /\ Cardinality(NewSessionChecks) = Cardinality(Builds)

\* C20, amended: the same for every NewSession call with a valid role; a
\* call with an invalid role returns the role error without calling
\* Validate.  Encrypt and Decrypt never call the policy.
C20_ValidatedOnceForValidRole ==
    /\ \A r \in Builds :
         IF built[r].role \in Roles
         THEN ValidatedOnce(r, built[r])
         ELSE /\ built[r].validated = <<>>
              /\ built[r].err = "InvalidRole"
              /\ sess[r] = NoSession
    /\ Cardinality(NewSessionChecks)
         = Cardinality({r \in Builds : built[r].role \in Roles})

\* NewSession with an invalid role and parameters the policy rejects
\* returned the role error; the other Session was accepted by the policy and
\* has sent an envelope; Validate was called once in all.
C20_Witness ==
    \E r \in Builds :
        /\ built[r].role \notin Roles
        /\ Validate(enforcer, ExpectedParams(built[r])) # "ok"
        /\ built[r].err = "InvalidRole"
        /\ peer(r) \in Builds
        /\ built[peer(r)].err = "ok"
        /\ Len(sent[peer(r)]) = 1
        /\ Len(checks) = 1


(***************************************************************************)
(* The nonce an envelope carries.                                          *)
(***************************************************************************)
\* C21: Decrypt requires the envelope to carry its nonce: an envelope whose
\* Nonce is absent or empty is rejected, and an envelope is accepted only if
\* its Nonce equals the nonce derived from the session id, its sequence and
\* the peer's role.
C21_NonceRequired ==
    last.kind # ""
        => /\ NonceLength(last.env.Nonce) = 0 => last.err # "ok"
           /\ last.err = "ok"
                => last.env.Nonce = computeNonce(sess[last.to].sessionID,
                                                 last.env.Sequence, peer(last.to))


(***************************************************************************)
(* The Session and the rekey.                                              *)
(***************************************************************************)
\* The manager NewSession made for the Session of role r.
ManagerAtStart(r) ==
    NewSession([SessionConfig(r, 0) EXCEPT
                  !.Rotation.MaxPackets = sess[r].rotation.cfg.MaxPackets]).s.rotation

\* C22: a Session never triggers a rekey: no Encrypt or Decrypt call changes
\* the epoch or resets the packet counter or the start time; every envelope
\* carries the Epoch of the SessionConfig; Encrypt and Decrypt succeed after
\* the rotate hint became true as they would have before.
C22_NoRekeyBySession ==
    /\ \A r \in Roles :
         /\ sess[r].rotation.epoch = SessionConfig(r, 0).Epoch
         /\ sess[r].rotation.start = ManagerAtStart(r).start
         /\ sess[r].rotation.packets = Len(sent[r])
         /\ \A k \in 1..Len(sent[r]) :
              /\ sent[r][k].env.Epoch = SessionConfig(r, 0).Epoch
              /\ sent[r][k].env.Sequence = k
    /\ last.kind # ""
         => last.err = SessionDecrypt([sess[last.to] EXCEPT
                                         !.recvWindow = last.before,
                                         !.rotation = ManagerAtStart(last.to)],
                                      last.env, now).err

\* The client's Session sent again after its hint became true, and then
\* opened an envelope with the hint true.
C22_Witness ==
    /\ Len(sent[RoleClient]) = 2
    /\ sent[RoleClient][1].rotate
    /\ last.to = RoleClient
    /\ last.err = "ok"
    /\ last.rotate

\* C25: ShouldRotate(now) is true exactly when MaxPackets > 0 and packets >=
\* MaxPackets, or now >= start + (Interval - s), where Interval is 15 minutes
\* and Skew is 5 seconds when the configured value is not positive, and s is
\* Skew if Skew < Interval and 0 otherwise; the call changes nothing in the
\* manager.
C25_ShouldRotateFormula ==
    asked.op = "ShouldRotate"
        => LET interval == IF made.cfg.Interval > 0 THEN made.cfg.Interval
                           ELSE 15 * 60
               skew == IF made.cfg.Skew > 0 THEN made.cfg.Skew ELSE 5
               s == IF skew < interval THEN skew ELSE 0
           IN /\ asked.hint <=>
                    \/ made.cfg.MaxPackets > 0 /\ mgr.packets >= made.cfg.MaxPackets
                    \/ asked.t >= mgr.start + (interval - s)
              /\ mgr = asked.before

\* A manager made with Skew 0 and an interval of six seconds answers true
\* five seconds before start + Interval, the packet threshold not reached.
C25_Witness ==
    /\ asked.op = "ShouldRotate"
    /\ asked.hint
    /\ made.cfg.Skew = 0
    /\ made.cfg.Interval = 6
    /\ asked.t = mgr.start + 1
    /\ ~(made.cfg.MaxPackets > 0 /\ mgr.packets >= made.cfg.MaxPackets)

\* C26: Reset(now) sets start to now, packets to 0 and epoch to epoch + 1;
\* Record, ShouldRotate and NextEpoch never change the epoch; over any
\* sequence of calls the epoch never decreases and equals the epoch given to
\* New plus the number of Reset calls.
C26_EpochCountsResets ==
    /\ asked.op = "Reset"
         => /\ mgr.start = asked.t
            /\ mgr.packets = 0
            /\ mgr.epoch = asked.before.epoch + 1
    /\ asked.op \in {"Record", "ShouldRotate", "NextEpoch"}
         => mgr.epoch = asked.before.epoch
    /\ asked.op # "" => mgr.epoch >= asked.before.epoch
    /\ mgr.epoch = made.epoch + made.resets

\* The decision table of C23, kept apart from the window: whether a valid
\* call was made, the highest sequence and the recorded sequences.
TableNew == [started |-> FALSE, highest |-> 0, recorded |-> {}]

TableStep(ref, seq, D) ==
    IF seq = 0 THEN [err |-> "SeqInvalid", ref |-> ref]
    ELSE IF ~ref.started
    THEN [err |-> "ok", ref |-> [started |-> TRUE, highest |-> seq, recorded |-> {seq}]]
    ELSE IF seq > ref.highest
    THEN [err |-> "ok",
          ref |-> [ref EXCEPT !.highest = seq,
                              !.recorded = {q \in @ \cup {seq} : ~(q <= seq - D)}]]
    ELSE IF ref.highest - seq >= D THEN [err |-> "ReplayStale", ref |-> ref]
    ELSE IF seq \in ref.recorded THEN [err |-> "ReplayDuplicate", ref |-> ref]
    ELSE [err |-> "ok", ref |-> [ref EXCEPT !.recorded = @ \cup {seq}]]

RECURSIVE TableAfter(_, _)
TableAfter(log, D) ==
    IF log = <<>> THEN TableNew
    ELSE TableStep(TableAfter(SubSeq(log, 1, Len(log) - 1), D), log[Len(log)].seq, D).ref

\* C23: for every sequence of Accept calls on a window of depth D, each call
\* returns what the decision table gives (0 is invalid; the first valid call
\* is accepted and sets highest; a sequence above highest is accepted, becomes
\* highest and entries <= highest - D are pruned; otherwise highest - seq >= D
\* is stale, a recorded sequence is a duplicate, and any other is recorded and
\* accepted), and the window holds the table's highest and recorded set.
C23_DecisionTable ==
    /\ \A i \in 1..Len(winLog) :
          winLog[i].err =
              TableStep(TableAfter(SubSeq(winLog, 1, i - 1), win.depth),
                        winLog[i].seq, win.depth).err
    /\ win.highest = TableAfter(winLog, win.depth).highest
    /\ win.seen = TableAfter(winLog, win.depth).recorded

\* TestWindowAccept: depth 4; 1 and 2 accepted, 2 a duplicate, 5 accepted,
\* 1 stale.
C23_Witness ==
    /\ win.depth = 4
    /\ [i \in 1..Len(winLog) |-> <<winLog[i].seq, winLog[i].err>>] =
          << <<1, "ok">>, <<2, "ok">>, <<2, "ReplayDuplicate">>, <<5, "ok">>,
             <<1, "ReplayStale">> >>

\* C24: after any sequence of Accept calls on a window of depth D, every
\* recorded sequence lies in highest - D + 1 .. highest and at most D
\* sequences are recorded.
C24_WindowBounded ==
    /\ \A q \in win.seen : win.highest - win.depth + 1 <= q /\ q <= win.highest
    /\ Cardinality(win.seen) <= win.depth

\* A window of depth 2 holding its two most recent sequences after an older
\* accepted one was pruned.
C24_Witness ==
    /\ win.depth = 2
    /\ Cardinality(win.seen) = 2
    /\ \E i \in 1..Len(winLog) :
          /\ winLog[i].err = "ok"
          /\ winLog[i].seq <= win.highest - win.depth

\* The window after the calls of a log made one after the other.
RECURSIVE WindowAfter(_, _)
WindowAfter(log, depth) ==
    IF log = <<>> THEN ReplayNew([Depth |-> depth])
    ELSE WindowAccept(WindowAfter(SubSeq(log, 1, Len(log) - 1), depth),
                      log[Len(log)].seq).w

\* C28: Accept calls made by several threads return what the same calls
\* return when made one after the other in some order (here: the order in
\* which they held the mutex), the window ends as that serial order leaves
\* it, and of the calls with one sequence number at most one succeeds.
C28_AcceptLinearizable ==
    /\ \A i \in 1..Len(winLog) :
          winLog[i].err =
              WindowAccept(WindowAfter(SubSeq(winLog, 1, i - 1), win.depth),
                           winLog[i].seq).err
    /\ (\A t \in Threads : winCalls[t].pc \in {"idle", "entered"})
          => win = WindowAfter(winLog, win.depth)
    /\ \A i, j \in 1..Len(winLog) :
          (i < j /\ winLog[i].seq = winLog[j].seq) =>
              ~(winLog[i].err = "ok" /\ winLog[j].err = "ok")

\* Two threads called Accept with the same sequence number, the second
\* beginning before the first returned: one succeeded, the other got the
\* duplicate error.
C28_Witness ==
    \E i, j \in 1..Len(winLog) :
        /\ i < j
        /\ winLog[i].t # winLog[j].t
        /\ winLog[i].seq = winLog[j].seq
        /\ winLog[j].began < i
        /\ winLog[i].err = "ok"
        /\ winLog[j].err = "ReplayDuplicate"

\* The client's Session as NewSession built it: no Encrypt recorded, an
\* empty replay window.
ClientAtStart ==
    [sess[RoleClient] EXCEPT !.sendSeq = 0, !.rotation.packets = 0,
                             !.recvWindow = ReplayNew([Depth |-> @.depth])]

\* The calls made on the client's Session: its Encrypts and its Decrypts.
DuplexCalls ==
    {<<"Encrypt", k>> : k \in 1..Len(sent[RoleClient])}
        \cup {<<"Decrypt", j>> : j \in 1..Len(ops)}

SerialOrders ==
    LET n == Cardinality(DuplexCalls)
    IN {o \in [1..n -> DuplexCalls] : \A a, b \in 1..n : a # b => o[a] # o[b]}

\* The first n calls of an order made one after the other from ClientAtStart:
\* whether each returned what the run recorded, and the Session after them.
RECURSIVE RunSerial(_, _)
RunSerial(order, n) ==
    IF n = 0 THEN [same |-> TRUE, s |-> ClientAtStart]
    ELSE LET prev == RunSerial(order, n - 1)
             c == order[n]
         IN IF c[1] = "Encrypt"
            THEN LET e == sent[RoleClient][c[2]]
                     r == SessionEncrypt(prev.s, e.pt, e.meta, now)
                 IN [same |-> prev.same /\ r.env = e.env /\ r.rotate = e.rotate,
                     s |-> r.s]
            ELSE LET d == ops[c[2]]
                     r == SessionDecrypt(prev.s, d.env, now)
                 IN [same |-> prev.same /\ r.err = d.err /\ r.pt = d.pt
                                        /\ r.rotate = d.rotate,
                     s |-> r.s]

NoDecryptRunning == \A t \in Threads : recvCalls[t].pc = "idle"

\* C27, as stated: Encrypt changes only the send sequence and the packet
\* counter, Decrypt only the replay window, and so concurrent Encrypt and
\* Decrypt calls on one Session give the envelopes and results (plaintext,
\* rotate hint, error) and the Session state of a serial order of the same
\* calls.
C27_SerialOrderOfAllResults ==
    NoDecryptRunning
        => \E o \in SerialOrders :
              LET run == RunSerial(o, Cardinality(DuplexCalls))
              IN run.same /\ run.s = sess[RoleClient]

\* The client's Session after its first k Encrypts alone.
RECURSIVE SendAfter(_)
SendAfter(k) ==
    IF k = 0 THEN ClientAtStart
    ELSE LET e == sent[RoleClient][k]
         IN SessionEncrypt(SendAfter(k - 1), e.pt, e.meta, now).s

\* The client's Session after its first j Decrypts alone, in the order in
\* which they went through the replay window.
RECURSIVE RecvAfter(_)
RecvAfter(j) ==
    IF j = 0 THEN ClientAtStart
    ELSE SessionDecrypt(RecvAfter(j - 1), ops[j].env, now).s

\* C27, amended: Encrypt changes only the send sequence and the packet
\* counter, Decrypt only the replay window.  Every Encrypt returns the
\* envelope and hint of the Encrypts made alone in send order; every Decrypt
\* returns the error and plaintext of the Decrypts made alone in the order
\* of the replay window; the rotate hint of a successful Decrypt is
\* ShouldRotate at the packet count of the Encrypts recorded when it asks.
C27_IndependentButForHint ==
    /\ \A k \in 1..Len(sent[RoleClient]) :
          LET e == sent[RoleClient][k]
              r == SessionEncrypt(SendAfter(k - 1), e.pt, e.meta, now)
          IN r.env = e.env /\ r.rotate = e.rotate
    /\ \A j \in 1..Len(ops) :
          LET d == ops[j]
              r == SessionDecrypt(RecvAfter(j - 1), d.env, now)
          IN /\ d.err # "pending" => r.err = d.err /\ r.pt = d.pt
             /\ d.err = "pending" => r.err = "ok"
             /\ d.packets <= Len(sent[RoleClient])
             /\ d.rotate = (d.err = "ok" /\
                              ShouldRotate([ClientAtStart.rotation EXCEPT
                                               !.packets = d.packets], now))
    /\ sess[RoleClient] =
          [ClientAtStart EXCEPT !.sendSeq = Len(sent[RoleClient]),
                                !.rotation.packets = Len(sent[RoleClient]),
                                !.recvWindow = RecvAfter(Len(ops)).recvWindow]

\* Two Decrypts and one Encrypt on the client's Session with replay depth 1:
\* the Decrypt that went through the window first returned the hint true,
\* the second returned false.
C27_Witness ==
    /\ NoDecryptRunning
    /\ Len(sent[RoleClient]) = 1
    /\ Len(ops) = 2
    /\ sess[RoleClient].recvWindow.depth = 1
    /\ ops[1].err = "ok" /\ ops[2].err = "ok"
    /\ ops[1].rotate /\ ~ops[2].rotate

\* The successful appends among the first k calls of snaps, in order.
RECURSIVE AppendsUpTo(_)
AppendsUpTo(k) ==
    IF k = 0 THEN <<>>
    ELSE IF snaps[k].op = "Append" /\ snaps[k].err = "ok"
    THEN Append(AppendsUpTo(k - 1), <<snaps[k].label, snaps[k].v>>)
    ELSE AppendsUpTo(k - 1)

\* The digest as a function of the domain and the appends alone.
RECURSIVE DigestInput(_, _)
DigestInput(domain, appends) ==
    IF appends = <<>> THEN DomainPrefix \o domain
    ELSE LET last1 == appends[Len(appends)]
             body == JsonMarshal(last1[2]).bytes
         IN DigestInput(domain, SubSeq(appends, 1, Len(appends) - 1))
                \o last1[1] \o LenBuf(Len(body)) \o body

\* C29: Snapshot does not consume or change the accumulator: two Snapshots
\* in a row are equal, an Append after a Snapshot gives the digest it gives
\* without the Snapshot, the digest depends only on the domain and the
\* successful appends in order, and a failing Append leaves it unchanged.
C29_SnapshotPure ==
    Len(accs) = 1 =>
        \A k \in 1..Len(snaps) :
            /\ snaps[k].digest = hashBytes(DigestInput(snaps[1].label, AppendsUpTo(k)))
            /\ (k > 1 /\ snaps[k].op = "Snapshot")
                  => snaps[k].digest = snaps[k - 1].digest
            /\ (snaps[k].op = "Append" /\ snaps[k].err # "ok")
                  => snaps[k].digest = snaps[k - 1].digest

\* Snapshot, a successful Append, Snapshot: the last digest is the one the
\* Append alone gives, and differs from the first.
C29_Witness ==
    /\ Len(accs) = 1
    /\ Len(snaps) = 4
    /\ snaps[2].op = "Snapshot"
    /\ snaps[3].op = "Append" /\ snaps[3].err = "ok"
    /\ snaps[4].op = "Snapshot"
    /\ snaps[4].digest = snaps[3].digest
    /\ snaps[4].digest # snaps[2].digest

NulFree(logs) == \A i \in 1..Len(logs) : \A b \in 1..Len(logs[i].Label) : logs[i].Label[b] # 0

\* C30, as stated: two different sequences of (label, value) appends under
\* the same domain never feed the hasher the same bytes, whatever the
\* non-empty labels and the values.
C30_FramingUnambiguous ==
    Len(accs) = 2 =>
        (accs[1].hasher = accs[2].hasher => accs[1].logs = accs[2].logs)

\* C30, amended: two different sequences of appends under the same domain
\* never feed the hasher the same bytes when no label contains a zero byte.
C30_FramingUnambiguousNulFree ==
    (Len(accs) = 2 /\ NulFree(accs[1].logs) /\ NulFree(accs[2].logs)) =>
        (accs[1].hasher = accs[2].hasher => accs[1].logs = accs[2].logs)

\* Two accumulators fed the same bytes by two appends each, no label with a
\* zero byte.
C30_Witness ==
    /\ Len(accs) = 2
    /\ Len(accs[1].logs) = 2 /\ Len(accs[2].logs) = 2
    /\ NulFree(accs[1].logs) /\ NulFree(accs[2].logs)
    /\ accs[1].hasher = accs[2].hasher
    /\ accs[1].logs[1].Label # accs[1].logs[2].Label

\* C31: no sequence number is accepted twice by one Session: whatever
\* envelopes are delivered (genuine, replayed or forged), at most one Decrypt
\* call per sequence number returns plaintext.
C31_OncePerSequence ==
    /\ \A r \in Roles : \A e1, e2 \in opened[r] :
          e1.Sequence = e2.Sequence => e1 = e2
    /\ (last.kind # "" /\ last.err = "ok")
          => /\ ~last.again
             /\ last.before.highest # 0 => last.env.Sequence \notin last.before.seen

\* A copy of an envelope already opened, one ciphertext bit flipped, is
\* delivered and rejected.
C31_Witness ==
    /\ last.kind = "ciphertext"
    /\ last.err # "ok"
    /\ \E e \in opened[last.to] : e.Sequence = last.env.Sequence

\* C32: a Decrypt call that returns an error leaves the replay window as it
\* was: the same highest value and the same recorded set, whichever the
\* error (sequence 0, duplicate, stale, nonce mismatch, AEAD failure).
C32_ErrorLeavesWindow ==
    (last.kind # "" /\ last.err # "ok")
        => /\ sess[last.to].recvWindow.highest = last.before.highest
           /\ sess[last.to].recvWindow.seen = last.before.seen

\* C33: for every Session NewSession builds with a non-nil policy, the
\* interval its rotation manager uses lies within the policy's MinRotation
\* and MaxRotation: it is the rotation window the policy validated.
C33_IntervalWithinPolicy ==
    \A r \in Roles :
        (built[r].called /\ built[r].err = "ok" /\ ~enforcer.isNil)
            => /\ sess[r].rotation.cfg.Interval >= enforcer.cfg.MinRotation
               /\ sess[r].rotation.cfg.Interval <= enforcer.cfg.MaxRotation
               /\ sess[r].rotation.cfg.Interval = built[r].window

\* C34: the rotation_secs of the ServerPayload Accept produces equals, in
\* whole seconds, the rotation window NextRotation - EstablishedAt of the
\* Keys the same Accept returns, whatever the configured RotationInterval:
\* zero, negative, or above the range of a uint32.
C34_PayloadAnnouncesWindow ==
    \A i \in 1..Len(accepts) :
        accepts[i].err = "ok"
            => accepts[i].resp.Payload.rot =
                 accepts[i].keys.NextRotation - accepts[i].keys.EstablishedAt

\* C35: no reflection: an envelope that a Session's own Encrypt produced is
\* never accepted by Decrypt of the same Session, nor of another Session of
\* the same role built from the same keys; Decrypt returns plaintext only
\* for envelopes sealed by the peer role.
C35_NoReflection ==
    /\ HandshakeKeys(RoleClient).ClientToServer # HandshakeKeys(RoleClient).ServerToClient
    /\ last.kind # "" =>
          /\ last.from = last.to => (last.err # "ok" /\ last.pt = NoPlaintext)
          /\ last.err = "ok" =>
                /\ last.from = peer(last.to)
                /\ last.env.Ciphertext.key = sess[peer(last.to)].sendKey
                /\ last.env.Ciphertext.nonce.role = peer(last.to)

\* A Session of the same role, fresh from the same keys, is handed the
\* untouched envelope of the first Session and rejects it.
C35_Witness ==
    /\ last.kind = "none"
    /\ last.from = last.to
    /\ last.before.highest = 0
    /\ sess[last.to].recvWindow.highest # 0
    /\ last.err = "NonceMismatch"

\* C37: immediately after Manager.Reset(now), ShouldRotate(now) is false,
\* for every configuration of Interval, Skew and MaxPackets: a ShouldRotate
\* that directly follows a Reset and is given the Reset's instant answers
\* false.
C37_FreshAfterReset ==
    (asked.op = "ShouldRotate" /\ asked.prev = "Reset" /\ asked.t = mgr.start)
        => ~asked.hint

\* The Reset cleared a packet count that had reached MaxPackets, under a
\* configuration whose Skew is not below its Interval.
C37_Witness ==
    /\ asked.op = "ShouldRotate"
    /\ asked.prev = "Reset"
    /\ asked.t = mgr.start
    /\ made.cfg.MaxPackets > 0
    /\ made.cfg.Skew >= made.cfg.Interval
    /\ made.cfg.Interval > 0
    /\ mgr.start > made.start
    /\ ~asked.hint

\* C38: after any sequence of Accept calls on a Window, Highest() is the
\* largest sequence for which Accept returned success, 0 when none did; it
\* never decreases, and a call that returns an error leaves it unchanged.
AcceptedSeqs == {winLog[i].seq : i \in {k \in 1..Len(winLog) : winLog[k].err = "ok"}}

LargestOf(S) == IF S = {} THEN 0 ELSE CHOOSE x \in S : \A y \in S : y <= x

C38_HighestIsLargestAccepted ==
    /\ [](Highest(win) = LargestOf(AcceptedSeqs))
    /\ [][/\ Highest(win') >= Highest(win)
          /\ (Len(winLog') > Len(winLog) /\ winLog'[Len(winLog')].err # "ok")
                => Highest(win') = Highest(win)]_vars

\* After a high sequence, a lower one inside the window was accepted and
\* another call was refused; the highest is still the earlier one.
C38_Witness ==
    /\ Len(winLog) >= 3
    /\ winLog[Len(winLog)].err # "ok"
    /\ \E i, j \in 1..Len(winLog) :
          /\ i < j
          /\ winLog[i].err = "ok"
          /\ winLog[j].err = "ok"
          /\ winLog[j].seq < winLog[i].seq
          /\ Highest(win) = winLog[i].seq

\* C36: metadataAAD is injective on metadata maps, a nil and an empty map
\* counted as one, so Decrypt fails whenever the envelope's Metadata
\* differs in any way from the map given to Encrypt.
C36_MetadataBound ==
    /\ \A r1, r2 \in Roles : \A i \in 1..Len(sent[r1]), j \in 1..Len(sent[r2]) :
          metadataAAD(sent[r1][i].env.Metadata) = metadataAAD(sent[r2][j].env.Metadata)
              => sent[r1][i].env.Metadata = sent[r2][j].env.Metadata
    /\ (last.kind # "" /\ last.env.Metadata # last.orig.Metadata) => last.err # "ok"

\* C39: the outcome of Decrypt and the state it leaves do not depend on
\* Envelope.Epoch: two envelopes that differ only in Epoch, given to a
\* Session in the same state, yield the same plaintext, hint, error and
\* session; an envelope whose Epoch was changed on the wire is treated as
\* the envelope the peer made.
C39_EpochIgnored ==
    /\ \A r \in Roles : sess[r] # NoSession =>
          \A i \in 1..Len(sent[peer(r)]) :
             \A tam \in Delivered(sent[peer(r)][i].env) : \A e \in WireEpochs :
                SessionDecrypt(sess[r], tam.env, now)
                    = SessionDecrypt(sess[r], [tam.env EXCEPT !.Epoch = e], now)
    /\ last.kind = "epoch" =>
          /\ last.err = WindowAccept(last.before, last.orig.Sequence).err
          /\ last.err = "ok" =>
                \E i \in 1..Len(sent[last.from]) :
                    /\ sent[last.from][i].env = last.orig
                    /\ sent[last.from][i].pt = last.pt

\* An envelope whose Epoch was changed was opened, and the same envelope
\* with yet another Epoch is refused as a duplicate.
C39_Witness ==
    /\ last.kind = "epoch"
    /\ last.err = "ReplayDuplicate"
    /\ last.env.Epoch # last.orig.Epoch
    /\ \E e \in opened[last.to] :
          /\ e.Epoch \notin {last.env.Epoch, last.orig.Epoch}
          /\ [e EXCEPT !.Epoch = last.orig.Epoch] = last.orig

\* C40: the rotate hint is monotone within a Session under a clock that
\* does not go back: once an Encrypt or a successful Decrypt of a Session
\* has returned rotate = true, every later Encrypt and every later
\* successful Decrypt of that Session returns rotate = true.
C40_HintMonotone ==
    [][\A r \in last.hinted :
          /\ Len(sent'[r]) > Len(sent[r]) => sent'[r][Len(sent'[r])].rotate
          /\ (sess'[r].recvWindow # sess[r].recvWindow /\ last'.to = r /\ last'.err = "ok")
                => last'.rotate]_vars

\* Both sessions have returned the hint: one from an Encrypt made once the
\* clock had reached the deadline, after an Encrypt that returned false, the
\* other from the successful Decrypt that followed.
C40_Witness ==
    /\ last.hinted = Roles
    /\ last.err = "ok"
    /\ last.rotate
    /\ now >= 595
    /\ Len(sent[last.from]) = 2
    /\ ~sent[last.from][1].rotate
    /\ sent[last.from][2].rotate
    /\ last.orig = sent[last.from][2].env
====
